---------------------------- MODULE Spec2Model ----------------------------
(***************************************************************************)
(* A model of peewee_migrate: the Router (migration runner), the Migrator  *)
(* (schema mutator: registry + queue of pending operations) and the        *)
(* history table MigrateHistory.                                           *)
(*                                                                         *)
(* Migration names are numbers; Router.todo sorts the file names, and the  *)
(* names "001_x" < "002_y" < ... sort like their numbers.  The history     *)
(* table is the sequence of its rows' names ordered by id (Router.done);   *)
(* a table that does not exist yet is created empty by Router.model before *)
(* it is first read, so it reads as the empty sequence.                    *)
(***************************************************************************)
EXTENDS Integers, Sequences, FiniteSets, TLC

\* ------------------------------------------------------------------ bounds
\* Number of API calls (run / rollback / run_one) made on the routers.
MaxCalls == 3

\* ------------------------------------------------------------ small helpers
None == 0

Range(s) == {s[i] : i \in 1..Len(s)}

Put(f, k, v) == [x \in (DOMAIN f) \cup {k} |-> IF x = k THEN v ELSE f[x]]

Del(f, k) == [x \in (DOMAIN f) \ {k} |-> f[x]]

EmptyMap == [x \in {} |-> None]

Min(S) == CHOOSE x \in S : \A y \in S : x <= y

\* sorted(...) of a set of names
RECURSIVE Sorted(_)
Sorted(S) == IF S = {} THEN <<>> ELSE <<Min(S)>> \o Sorted(S \ {Min(S)})

\* --------------------------------------------------------- migration files
\* The names a caller may pass; 4 names no file (Router.read fails on it).
Names == 1..4

\* The name Router.compile gives the merged migration ("001_initial"): a name
\* no file of the directory has.
Merged == 5

\* Migrator calls made by a migration's migrate()/rollback() function: the
\* method, the model (class name, or the string the call looks it up by), the
\* table name and the names of the fields the call is about (a set).
Call(m, model, tname, field) ==
    [m |-> m, model |-> model, tname |-> tname, field |-> field]

\* The migration files the directory starts with: name -> (migrate, rollback)
\* as the sequences of Migrator calls the two functions make.
\*   1 creates table a (model A);  2 adds column f to it and runs raw SQL;
\*   3 creates table b (model B) and queues a python callback.
InitFiles ==
    [n \in {1, 2, 3} |->
        CASE n = 1 -> [migrate  |-> <<Call("create_model", "A", "a", {"id"})>>,
                       rollback |-> <<Call("remove_model", "A", "a", {})>>]
          [] n = 2 -> [migrate  |-> <<Call("add_fields", "a", "a", {"f"}),
                                      Call("sql", "", "", {})>>,
                       rollback |-> <<Call("remove_fields", "a", "a", {"f"})>>]
          [] n = 3 -> [migrate  |-> <<Call("create_model", "B", "b", {"id"}),
                                      Call("run", "", "", {})>>,
                       rollback |-> <<Call("remove_model", "B", "b", {})>>]]

\* The order of names as strings (sorted(), and the order in which a class
\* declares its fields: here the fields are declared in this order too).
Alphabet == <<"A", "B", "C", "a", "b", "c", "f", "f_id", "h", "h_id", "id">>

Ord(x) == CHOOSE i \in 1..Len(Alphabet) : Alphabet[i] = x

First(S) == CHOOSE x \in S : \A y \in S : Ord(x) <= Ord(y)

\* The names of a set in that order.
RECURSIVE InOrder(_)
InOrder(S) == IF S = {} THEN <<>> ELSE <<First(S)>> \o InOrder(S \ {First(S)})

\* ------------------------------------------------------------ ORM registry
\* A model class: its name, its table name and its fields.
Model(name, tname, fields) == [name |-> name, tname |-> tname, fields |-> fields]

\* ORM.__init__
NewORM == [models |-> EmptyMap, tables |-> EmptyMap]

\* ORM.add
ORM_add(orm, model) ==
    [models |-> Put(orm.models, model.name, model),
     tables |-> Put(orm.tables, model.tname, model)]

\* ORM.remove: the two del statements, the first failing one raises KeyError
\* and leaves what was deleted before it deleted.
ORM_remove(orm, model) ==
    IF model.name \notin DOMAIN orm.models
    THEN [ok |-> FALSE, orm |-> orm]
    ELSE IF model.tname \notin DOMAIN orm.tables
         THEN [ok |-> FALSE,
               orm |-> [orm EXCEPT !.models = Del(orm.models, model.name)]]
         ELSE [ok |-> TRUE,
               orm |-> [models |-> Del(orm.models, model.name),
                        tables |-> Del(orm.tables, model.tname)]]

\* Migrator.__get_model__ for a string: by model name, then by table name.
HasModel(orm, name) == name \in DOMAIN orm.models \/ name \in DOMAIN orm.tables

GetModel(orm, name) ==
    IF name \in DOMAIN orm.models THEN orm.models[name] ELSE orm.tables[name]

\* A model class is one object held by both maps: a change made through the
\* class (meta.add_field, meta.remove_field) shows under every key holding it.
SameClass(a, b) == a.name = b.name /\ a.tname = b.tname

Mutate(orm, old, new) ==
    [models |-> [k \in DOMAIN orm.models |->
                    IF SameClass(orm.models[k], old) THEN new ELSE orm.models[k]],
     tables |-> [k \in DOMAIN orm.tables |->
                    IF SameClass(orm.tables[k], old) THEN new ELSE orm.tables[k]]]

\* ---------------------------------------------------------------- Migrator
\* A queued operation; mig is the migration whose function queued it.
Op(kind, table, col, mig) == [kind |-> kind, table |-> table, col |-> col, mig |-> mig]

\* Migrator.__init__: an empty registry and an empty queue.
NewMigrator == [orm |-> NewORM, ops |-> <<>>]

\* The result of one Migrator method: the migrator after it, and whether it
\* returned (ok) or raised.
Ret(mg, ok) == [mg |-> mg, ok |-> ok]

\* Migrator.create_model: the class with its fields is registered and its
\* create_table is queued.
create_model(mg, c, mig) ==
    Ret([orm |-> ORM_add(mg.orm, Model(c.model, c.tname, c.field)),
         ops |-> Append(mg.ops, Op("create_table", c.tname, c.field, mig))], TRUE)

\* Migrator.remove_model
remove_model(mg, c, mig) ==
    IF ~HasModel(mg.orm, c.model) THEN Ret(mg, FALSE)
    ELSE LET model == GetModel(mg.orm, c.model)
             r     == ORM_remove(mg.orm, model)
         IN  IF ~r.ok THEN Ret([mg EXCEPT !.orm = r.orm], FALSE)
             ELSE Ret([orm |-> r.orm,
                       ops |-> Append(mg.ops, Op("drop_table", model.tname, "", mig))],
                      TRUE)

\* Migrator.add_fields: every field is added to the class and one add_column
\* is queued for each.
add_fields(mg, c, mig) ==
    IF ~HasModel(mg.orm, c.model) THEN Ret(mg, FALSE)
    ELSE LET model == GetModel(mg.orm, c.model)
             new   == [model EXCEPT !.fields = @ \cup c.field]
             names == InOrder(c.field)
         IN  Ret([orm |-> Mutate(mg.orm, model, new),
                  ops |-> mg.ops \o [i \in 1..Len(names) |->
                                        Op("add_column", model.tname, names[i], mig)]],
                 TRUE)

\* Migrator.remove_fields: the fields of the class that are named are deleted
\* and one drop_column is queued for each; a name the class has no field of is
\* skipped silently.
remove_fields(mg, c, mig) ==
    IF ~HasModel(mg.orm, c.model) THEN Ret(mg, FALSE)
    ELSE LET model == GetModel(mg.orm, c.model)
             new   == [model EXCEPT !.fields = @ \ c.field]
             names == InOrder(c.field \cap model.fields)
         IN  Ret([orm |-> Mutate(mg.orm, model, new),
                  ops |-> mg.ops \o [i \in 1..Len(names) |->
                                        Op("drop_column", model.tname, names[i], mig)]],
                 TRUE)

\* Migrator.sql
sql(mg, c, mig) == Ret([mg EXCEPT !.ops = Append(@, Op("sql", "", "", mig))], TRUE)

\* Migrator.run (python callback)
Migrator_run(mg, c, mig) ==
    Ret([mg EXCEPT !.ops = Append(@, Op("callback", "", "", mig))], TRUE)

\* One call of a migration function on the migrator.
Apply(mg, c, mig) ==
    CASE c.m = "create_model"  -> create_model(mg, c, mig)
      [] c.m = "remove_model"  -> remove_model(mg, c, mig)
      [] c.m = "add_fields"    -> add_fields(mg, c, mig)
      [] c.m = "remove_fields" -> remove_fields(mg, c, mig)
      [] c.m = "sql"           -> sql(mg, c, mig)
      [] c.m = "run"           -> Migrator_run(mg, c, mig)

\* A migration function (migrate or rollback of a file) called on the migrator:
\* its calls in order, stopping at the first one that raises.
RECURSIVE CallFn(_, _, _)
CallFn(mg, calls, mig) ==
    IF calls = <<>> THEN Ret(mg, TRUE)
    ELSE LET r == Apply(mg, Head(calls), mig)
         IN  IF r.ok THEN CallFn(r.mg, Tail(calls), mig) ELSE r

\* (mutant) the emulation returning before it calls migrate
FakeMigrate_Skip(F, mg, name) ==
    IF name \notin DOMAIN F THEN Ret(mg, FALSE) ELSE Ret(mg, TRUE)

\* The fake path of run_one up to the call of migrate: read the file (which
\* raises when there is none) and call migrate under the mocked database.
\* migrate is called whatever downgrade is.
FakeMigrate(F, mg, name) ==
    IF name \notin DOMAIN F THEN Ret(mg, FALSE)
    ELSE CallFn(mg, F[name].migrate, name)

\* The fake path of run_one without force (the defaults of run_one): as above,
\* then the queue is cleared.
FakeOne(F, mg, name) ==
    LET r == FakeMigrate(F, mg, name)
    IN  IF r.ok THEN Ret([r.mg EXCEPT !.ops = <<>>], TRUE) ELSE r

\* Router.migrator (the body of the cached property): a new Migrator on which
\* every done migration is replayed with run_one(name, migrator).  reads counts
\* the files read.
RECURSIVE Replay(_, _, _)
Replay(F, mg, names) ==
    IF names = <<>> THEN [ok |-> TRUE, mg |-> mg, reads |-> 0]
    ELSE LET r == FakeOne(F, mg, Head(names))
         IN  IF ~r.ok THEN [ok |-> FALSE, mg |-> r.mg, reads |-> 1]
             ELSE LET rest == Replay(F, r.mg, Tail(names))
                  IN  [rest EXCEPT !.reads = @ + 1]

\* ---------------------------------------------------------------- database
\* The database: the history table (row names in id order), the tables of the
\* schema with their columns, and per migration the number of times its
\* upgrade has been flushed minus the number of times its downgrade has.
InitDB == [history |-> <<>>,
           tables  |-> EmptyMap,
           applied |-> [n \in 1..(Merged + MaxCalls) |-> 0]]

\* What running one queued operation does to the schema; ok is FALSE when the
\* database rejects the statement.  create_table and drop_table are "safe"
\* (IF NOT EXISTS / IF EXISTS); raw SQL and callbacks leave the schema alone.
ExecOp(tables, op) ==
    CASE op.kind = "create_table" ->
            [ok |-> TRUE,
             tables |-> IF op.table \in DOMAIN tables THEN tables
                        ELSE Put(tables, op.table, op.col)]
      [] op.kind = "drop_table" ->
            [ok |-> TRUE, tables |-> Del(tables, op.table)]
      [] op.kind = "add_column" ->
            IF op.table \in DOMAIN tables /\ op.col \notin tables[op.table]
            THEN [ok |-> TRUE,
                  tables |-> Put(tables, op.table, tables[op.table] \cup {op.col})]
            ELSE [ok |-> FALSE, tables |-> tables]
      [] op.kind = "drop_column" ->
            IF op.table \in DOMAIN tables /\ op.col \in tables[op.table]
            THEN [ok |-> TRUE,
                  tables |-> Put(tables, op.table, tables[op.table] \ {op.col})]
            ELSE [ok |-> FALSE, tables |-> tables]
      [] OTHER -> [ok |-> TRUE, tables |-> tables]

\* self.model.create(name=name)
HistoryCreate(history, name) == Append(history, name)

\* (mutant) the delete without its where clause
HistoryDelete_NoWhere(history, name) == <<>>

\* self.model.delete().where(self.model.name == name).execute()
HistoryDelete(history, name) == SelectSeq(history, LAMBDA n : n # name)

\* (mutant) no transaction around the body of run_one
TxRollback_None(d, saved) == d

\* database.transaction() left by an exception / database.rollback(): the
\* database is what it was when the transaction began.
TxRollback(d, saved) == saved

\* ------------------------------------------------------------------ Router
\* Router.todo
Todo(F) == Sorted(DOMAIN F)

\* BaseRouter.done
Done(d) == d.history

\* (mutant) diff filtered against the last done migration only
Diff_LastOnly(todo, done) ==
    LET doneset == IF done = <<>> THEN {} ELSE {done[Len(done)]}
    IN  SelectSeq(todo, LAMBDA name : name \notin doneset)

\* BaseRouter.diff
Diff(todo, done) ==
    LET doneset == Range(done)
    IN  SelectSeq(todo, LAMBDA name : name \notin doneset)

\* ------------------------------------------------------------------- state
VARIABLES
    files,      \* the migration directory: name -> (migrate, rollback)
    db,         \* the database
    lock,       \* the router whose transaction is open, or 0
    pc,         \* per router: where its current call stands
    call,       \* per router: the API call being made (or the last one made)
    cur,        \* per router: the arguments of the run_one in progress
    loc,        \* per router: locals of run() and of the flush loop
    migrator,   \* per router: self.migrator (registry and queue)
    cached,     \* per router: whether the cached property migrator is set
    snap,       \* per router: the database when its transaction began
    out,        \* per router: how its last call ended
    g,          \* per router: bookkeeping for the properties
    calls,      \* number of API calls made
    auto        \* the schema snapshots being diffed and the registry migrated
                \* between them (auto migrations)

vars == <<files, db, lock, pc, call, cur, loc, migrator, cached, snap, out, g, calls,
          auto>>

Routers == {1, 2}

One(name, fake, downgrade, force) ==
    [name |-> name, fake |-> fake, downgrade |-> downgrade, force |-> force]

NoOne == One(None, FALSE, FALSE, FALSE)

ApiCall(kind, name, fake, downgrade, force) ==
    [kind |-> kind, name |-> name, fake |-> fake, downgrade |-> downgrade,
     force |-> force]

NoLoc == [diff |-> <<>>, idx |-> 1, ret |-> <<>>, k |-> 1]

\* Bookkeeping taken when an API call starts (pre) and when a run_one starts
\* (ro).  Of the current API call: stmts counts the statements that reached
\* the database and could change it, reads the migration files read, ran lists
\* the migrations whose run_one was entered, execd holds the migrations that
\* queued an operation the call executed (and did not roll back), flushed
\* lists the operations the flush of the current run_one has run.  afterrun
\* tells that the call before was a run() that started on an empty history
\* table and returned.
Shot(r) == [history |-> db.history, tables |-> db.tables, applied |-> db.applied,
            files |-> files,
            orm |-> migrator[r].orm, ops |-> migrator[r].ops,
            cached |-> cached[r], stmts |-> g[r].stmts, execd |-> g[r].execd]

NoShot == [history |-> <<>>, tables |-> EmptyMap, applied |-> InitDB.applied,
           files |-> EmptyMap,
           orm |-> NewORM, ops |-> <<>>, cached |-> FALSE, stmts |-> 0,
           execd |-> {}]

NoBook == [pre |-> NoShot, ro |-> NoShot, stmts |-> 0, reads |-> 0,
           ran |-> <<>>, execd |-> {}, afterrun |-> FALSE, flushed |-> <<>>]

\* No snapshots are being diffed.
NoAuto == [A |-> {}, B |-> {}, mg |-> NewMigrator, at |-> "none", ok |-> TRUE,
           migrate |-> <<>>, rollback |-> <<>>]

FullRunReturned(r) ==
    /\ call[r].kind = "run" /\ call[r].name = None
    /\ out[r].res = "ok"
    /\ g[r].pre.history = <<>>

\* The routers, the directory and the database after construction.
RouterInit ==
    /\ files = InitFiles
    /\ db = InitDB
    /\ lock = 0
    /\ pc = [r \in Routers |-> "idle"]
    /\ call = [r \in Routers |-> ApiCall("", None, FALSE, FALSE, FALSE)]
    /\ cur = [r \in Routers |-> NoOne]
    /\ loc = [r \in Routers |-> NoLoc]
    /\ migrator = [r \in Routers |-> NewMigrator]
    /\ cached = [r \in Routers |-> FALSE]
    /\ snap = [r \in Routers |-> InitDB]
    /\ out = [r \in Routers |-> [res |-> "none", at |-> ""]]
    /\ g = [r \in Routers |-> NoBook]
    /\ calls = 0

Init == RouterInit /\ auto = NoAuto

\* An API call starts: the bookkeeping of the call is reset.
Begin(r, c) ==
    /\ pc[r] = "idle"
    /\ calls < MaxCalls
    /\ calls' = calls + 1
    /\ call' = [call EXCEPT ![r] = c]
    /\ g' = [g EXCEPT ![r] = [NoBook EXCEPT !.pre = [Shot(r) EXCEPT !.stmts = 0, !.execd = {}],
                                            !.afterrun = FullRunReturned(r)]]

\* The call raises to its caller.
Raised(r, at) ==
    /\ pc' = [pc EXCEPT ![r] = "idle"]
    /\ out' = [out EXCEPT ![r] = [res |-> "raised", at |-> at]]

\* run_one raises inside its transaction: the transaction is rolled back and
\* the exception is re-raised (run and rollback do not catch it).
TxRaised(r, at) ==
    /\ db' = TxRollback(db, snap[r])
    /\ lock' = 0
    /\ g' = [g EXCEPT ![r].execd = g[r].ro.execd]
    /\ Raised(r, at)

\* run_one returns name: to the loop of run(), to rollback() called by the
\* loop of the rollback command, or to the caller.
Returned(r) ==
    CASE call[r].kind = "run" ->
            /\ pc' = [pc EXCEPT ![r] = "run_next"]
            /\ out' = out
      [] call[r].kind = "cli_rollback" ->
            /\ pc' = [pc EXCEPT ![r] = "cli_next"]
            /\ out' = out
      [] OTHER ->
            /\ pc' = [pc EXCEPT ![r] = "idle"]
            /\ out' = [out EXCEPT ![r] = [res |-> "ok", at |-> "end"]]

\* BaseRouter.run, up to the first use of the migrator: diff is computed, and
\* run returns at once when it is empty.
Run(r, name, fake) ==
    /\ Begin(r, ApiCall("run", name, fake, FALSE, fake))
    /\ LET diff == Diff(Todo(files), Done(db))
       IN  /\ loc' = [loc EXCEPT ![r] = [NoLoc EXCEPT !.diff = diff]]
           /\ IF diff = <<>>
              THEN /\ pc' = [pc EXCEPT ![r] = "idle"]
                   /\ out' = [out EXCEPT ![r] = [res |-> "ok", at |-> "nothing"]]
                   /\ cur' = [cur EXCEPT ![r] = NoOne]
              ELSE /\ pc' = [pc EXCEPT ![r] = "get_migrator"]
                   /\ out' = [out EXCEPT ![r] = [res |-> "none", at |-> ""]]
                   /\ cur' = [cur EXCEPT ![r] = One(diff[1], fake, FALSE, fake)]
    /\ UNCHANGED <<auto, files, db, lock, migrator, cached, snap>>

\* (mutant) rollback taking self.migrator before it looks at done
Rollback_MigratorFirst(r) ==
    /\ Begin(r, ApiCall("rollback", None, FALSE, TRUE, FALSE))
    /\ LET done == Done(db)
       IN  IF done = <<>>
           THEN /\ Raised(r, "empty")
                /\ cur' = [cur EXCEPT ![r] = NoOne]
                /\ cached' = [cached EXCEPT ![r] = TRUE]
                /\ migrator' = [migrator EXCEPT ![r] = IF cached[r] THEN @ ELSE NewMigrator]
           ELSE /\ pc' = [pc EXCEPT ![r] = "get_migrator"]
                /\ out' = [out EXCEPT ![r] = [res |-> "none", at |-> ""]]
                /\ cur' = [cur EXCEPT ![r] = One(done[Len(done)], FALSE, TRUE, FALSE)]
                /\ UNCHANGED <<migrator, cached>>
    /\ loc' = [loc EXCEPT ![r] = NoLoc]
    /\ UNCHANGED <<auto, files, db, lock, snap>>

\* BaseRouter.rollback, up to the first use of the migrator.
Rollback(r) ==
    /\ Begin(r, ApiCall("rollback", None, FALSE, TRUE, FALSE))
    /\ LET done == Done(db)
       IN  IF done = <<>>
           THEN /\ Raised(r, "empty")
                /\ cur' = [cur EXCEPT ![r] = NoOne]
           ELSE /\ pc' = [pc EXCEPT ![r] = "get_migrator"]
                /\ out' = [out EXCEPT ![r] = [res |-> "none", at |-> ""]]
                /\ cur' = [cur EXCEPT ![r] = One(done[Len(done)], FALSE, TRUE, FALSE)]
    /\ loc' = [loc EXCEPT ![r] = NoLoc]
    /\ UNCHANGED <<auto, files, db, lock, migrator, cached, snap>>

\* router.run_one(name, router.migrator, fake=, downgrade=, force=) called
\* directly.
RunOne(r, name, fake, downgrade, force) ==
    /\ Begin(r, ApiCall("run_one", name, fake, downgrade, force))
    /\ pc' = [pc EXCEPT ![r] = "get_migrator"]
    /\ out' = [out EXCEPT ![r] = [res |-> "none", at |-> ""]]
    /\ cur' = [cur EXCEPT ![r] = One(name, fake, downgrade, force)]
    /\ loc' = [loc EXCEPT ![r] = NoLoc]
    /\ UNCHANGED <<auto, files, db, lock, migrator, cached, snap>>

\* self.migrator: the cached migrator, or a new one built by replaying done.
GetMigrator(r) ==
    /\ pc[r] = "get_migrator"
    /\ IF cached[r]
       THEN /\ pc' = [pc EXCEPT ![r] = "run_one"]
            /\ UNCHANGED <<migrator, cached, out, g>>
       ELSE LET b == Replay(files, NewMigrator, Done(db))
            IN  /\ g' = [g EXCEPT ![r].reads = @ + b.reads]
                /\ IF b.ok
                   THEN /\ migrator' = [migrator EXCEPT ![r] = b.mg]
                        /\ cached' = [cached EXCEPT ![r] = TRUE]
                        /\ pc' = [pc EXCEPT ![r] = "run_one"]
                        /\ out' = out
                   ELSE /\ Raised(r, "migrator")
                        /\ UNCHANGED <<migrator, cached>>
    /\ UNCHANGED <<auto, files, db, lock, call, cur, loc, snap, calls>>

\* (mutant) the emulation taken for upgrades only
Emulate_UpgradeOnly(c) == c.fake /\ ~c.downgrade

\* run_one, "if fake:": the emulation is taken for fake=True, whatever
\* downgrade and force are.
Emulate(c) == c.fake

\* run_one entered: bookkeeping.
Entered(r) ==
    g' = [g EXCEPT ![r].ro = Shot(r), ![r].reads = @ + 1,
                   ![r].ran = Append(@, cur[r].name), ![r].flushed = <<>>]

\* run_one with fake=True: read the file, call migrate under the mock.
RoFake(r) ==
    /\ pc[r] = "run_one"
    /\ Emulate(cur[r])
    /\ Entered(r)
    /\ LET m == FakeMigrate(files, migrator[r], cur[r].name)
       IN  IF ~m.ok
           THEN /\ migrator' = [migrator EXCEPT ![r] = m.mg]
                /\ Raised(r, IF cur[r].name \in DOMAIN files THEN "migrate" ELSE "read")
           ELSE IF cur[r].force
                THEN /\ migrator' = [migrator EXCEPT ![r] = m.mg]
                     /\ pc' = [pc EXCEPT ![r] = "force"]
                     /\ out' = out
                ELSE /\ migrator' = [migrator EXCEPT ![r] = [m.mg EXCEPT !.ops = <<>>]]
                     /\ Returned(r)
    /\ UNCHANGED <<auto, files, db, lock, call, cur, loc, cached, snap, calls>>

\* run_one with fake=True and force=True: the history row is written (outside
\* the mock, in no transaction), then the queue is cleared.
RoForce(r) ==
    /\ pc[r] = "force"
    /\ lock = 0
    /\ \E fail \in BOOLEAN :
          IF fail
          THEN /\ Raised(r, "force")
               /\ UNCHANGED <<db, migrator, g>>
          ELSE /\ db' = [db EXCEPT !.history = HistoryCreate(@, cur[r].name)]
               /\ g' = [g EXCEPT ![r].stmts = @ + 1]
               /\ migrator' = [migrator EXCEPT ![r].ops = <<>>]
               /\ Returned(r)
    /\ UNCHANGED <<auto, files, lock, call, cur, loc, cached, snap, calls>>

\* run_one with fake=False: read the file, open the transaction, call migrate
\* (or rollback when downgrade).
RoBegin(r) ==
    /\ pc[r] = "run_one"
    /\ ~Emulate(cur[r])
    /\ Entered(r)
    /\ IF cur[r].name \notin DOMAIN files
       THEN /\ Raised(r, "read")
            /\ UNCHANGED <<db, lock, migrator, snap, loc>>
       ELSE /\ lock = 0
            /\ snap' = [snap EXCEPT ![r] = db]
            /\ LET fn == IF cur[r].downgrade THEN files[cur[r].name].rollback
                         ELSE files[cur[r].name].migrate
                   m  == CallFn(migrator[r], fn, cur[r].name)
               IN  /\ migrator' = [migrator EXCEPT ![r] = m.mg]
                   /\ IF m.ok
                      THEN /\ lock' = r
                           /\ pc' = [pc EXCEPT ![r] = "flush"]
                           /\ loc' = [loc EXCEPT ![r].k = 1]
                           /\ UNCHANGED <<db, out>>
                      ELSE /\ lock' = 0
                           /\ db' = TxRollback(db, db)
                           /\ loc' = loc
                           /\ Raised(r, "migrate")
    /\ UNCHANGED <<auto, files, call, cur, cached, calls>>

\* (mutant) the loop of Migrator.__call__ taking the queue from its end
NextOp_FromEnd(ops, k) == ops[Len(ops) + 1 - k]

\* Migrator.__call__, "for op in self.__ops__": the operation of the k-th
\* iteration.
NextOp(ops, k) == ops[k]

\* Migrator.__call__, one operation of the queue.
RoFlush(r) ==
    /\ pc[r] = "flush"
    /\ loc[r].k <= Len(migrator[r].ops)
    /\ \E fail \in BOOLEAN :
          LET op == NextOp(migrator[r].ops, loc[r].k)
              e  == ExecOp(db.tables, op)
          IN  IF fail \/ ~e.ok
              THEN /\ TxRaised(r, "flush")
                   /\ loc' = loc
              ELSE /\ db' = [db EXCEPT !.tables = e.tables]
                   /\ g' = [g EXCEPT ![r].stmts = @ + 1,
                                     ![r].execd = @ \cup {op.mig},
                                     ![r].flushed = Append(@, op)]
                   /\ loc' = [loc EXCEPT ![r].k = @ + 1]
                   /\ UNCHANGED <<lock, pc, out>>
    /\ UNCHANGED <<auto, files, call, cur, migrator, cached, snap, calls>>

\* The end of Migrator.__call__ (the queue is cleared), then the history row
\* is created (or deleted when downgrade).
RoHistory(r) ==
    /\ pc[r] = "flush"
    /\ loc[r].k > Len(migrator[r].ops)
    /\ migrator' = [migrator EXCEPT ![r].ops = <<>>]
    /\ \E fail \in BOOLEAN :
          IF fail
          THEN TxRaised(r, "history")
          ELSE /\ db' = [db EXCEPT
                           !.history = IF cur[r].downgrade
                                       THEN HistoryDelete(@, cur[r].name)
                                       ELSE HistoryCreate(@, cur[r].name),
                           !.applied[cur[r].name] = IF cur[r].downgrade
                                                    THEN @ - 1 ELSE @ + 1]
               /\ g' = [g EXCEPT ![r].stmts = @ + 1]
               /\ pc' = [pc EXCEPT ![r] = "commit"]
               /\ UNCHANGED <<lock, out>>
    /\ UNCHANGED <<auto, files, call, cur, loc, cached, snap, calls>>

\* The transaction ends: commit, or rollback and raise when the commit fails.
RoCommit(r) ==
    /\ pc[r] = "commit"
    /\ \E fail \in BOOLEAN :
          IF fail
          THEN TxRaised(r, "commit")
          ELSE /\ lock' = 0
               /\ db' = db
               /\ g' = g
               /\ Returned(r)
    /\ UNCHANGED <<auto, files, call, cur, loc, migrator, cached, snap, calls>>

\* The loop of run() after run_one returned: the name is appended to the
\* result; the loop breaks at the name asked for, and ends after the last.
RunNext(r) ==
    /\ pc[r] = "run_next"
    /\ LET i == loc[r].idx
           c == call[r]
       IN  /\ IF (c.name # None /\ c.name = cur[r].name) \/ i = Len(loc[r].diff)
              THEN /\ pc' = [pc EXCEPT ![r] = "idle"]
                   /\ out' = [out EXCEPT ![r] = [res |-> "ok", at |-> "end"]]
                   /\ loc' = [loc EXCEPT ![r].ret = Append(@, cur[r].name)]
                   /\ cur' = cur
              ELSE /\ pc' = [pc EXCEPT ![r] = "run_one"]
                   /\ out' = out
                   /\ loc' = [loc EXCEPT ![r].ret = Append(@, cur[r].name),
                                         ![r].idx = i + 1]
                   /\ cur' = [cur EXCEPT ![r] = One(loc[r].diff[i + 1], c.fake,
                                                    FALSE, c.fake)]
    /\ UNCHANGED <<auto, files, db, lock, call, migrator, cached, snap, g, calls>>

\* One router: every call a caller can make, and the steps of the calls.
Next ==
    \/ \E name \in Names \cup {None}, fake \in BOOLEAN : Run(1, name, fake)
    \/ Rollback(1)
    \/ \E name \in Names, fake, downgrade, force \in BOOLEAN :
          RunOne(1, name, fake, downgrade, force)
    \/ GetMigrator(1)
    \/ RoFake(1)
    \/ RoForce(1)
    \/ RoBegin(1)
    \/ RoFlush(1)
    \/ RoHistory(1)
    \/ RoCommit(1)
    \/ RunNext(1)

Spec == Init /\ [][Next]_vars

\* Two routers on one database, each calling run().
NextConc ==
    \E r \in Routers :
        \/ Run(r, None, FALSE)
        \/ GetMigrator(r)
        \/ RoBegin(r)
        \/ RoFlush(r)
        \/ RoHistory(r)
        \/ RoCommit(r)
        \/ RunNext(r)

SpecConc == Init /\ [][NextConc]_vars

\* ------------------------------------------------------------- properties
\* The call of router r has ended and returned / raised.
Ended(r) == pc[r] = "idle" /\ out[r].res # "none"

\* The run_one last entered by router r has returned its name.
OneReturned(r) ==
    /\ g[r].ran # <<>>
    /\ \/ pc[r] = "run_next"
       \/ pc[r] = "idle" /\ out[r].res = "ok" /\ out[r].at = "end"

\* The run_one last entered by router r has raised.
OneRaised(r) == g[r].ran # <<>> /\ pc[r] = "idle" /\ out[r].res = "raised"

Count(s, x) == Cardinality({i \in 1..Len(s) : s[i] = x})

Pos(s, x) == CHOOSE i \in 1..Len(s) : s[i] = x

\* C1: a run() that starts on an empty history table and returns leaves done
\* equal to todo, in todo order; a rollback() that follows it and returns
\* leaves done equal to todo without its last migration.
C1_HistoryMonotonicity ==
    \A r \in Routers :
        /\ FullRunReturned(r) /\ pc[r] = "idle" => Done(db) = Todo(files)
        /\ (Ended(r) /\ call[r].kind = "rollback" /\ out[r].res = "ok" /\ g[r].afterrun)
              => Done(db) = SubSeq(Todo(files), 1, Len(Todo(files)) - 1)

C1_Witness ==
    \E r \in Routers :
        /\ Ended(r) /\ call[r].kind = "rollback" /\ out[r].res = "ok" /\ g[r].afterrun
        /\ Len(Done(db)) = Len(Todo(files)) - 1

\* C2: when migration number k of the pending ones fails during run(), the
\* history table holds what it held before followed by the k-1 migrations
\* before it and does not hold the failed one, run() raises, and none of the
\* later ones is attempted: its function is not run, none of the operations it
\* queued is executed, no history row is written for it.
C2_FailedRunStops ==
    \A r \in Routers :
        (call[r].kind = "run" /\ pc[r] = "idle" /\ g[r].ran # <<>> /\ out[r].res # "ok") =>
            LET d == loc[r].diff
                k == loc[r].idx
            IN  /\ out[r].res = "raised"
                /\ Done(db) = g[r].pre.history \o SubSeq(d, 1, k - 1)
                /\ d[k] \notin Range(Done(db))
                /\ g[r].ran = SubSeq(d, 1, k)
                /\ \A j \in (k + 1)..Len(d) :
                      /\ d[j] \notin Range(g[r].ran)
                      /\ d[j] \notin g[r].execd
                      /\ d[j] \notin Range(Done(db))

\* The part of C2 about the loop of run() alone: the migrations after the
\* failed one are not entered and not recorded.
C2_LaterNotEntered ==
    \A r \in Routers :
        (call[r].kind = "run" /\ pc[r] = "idle" /\ g[r].ran # <<>> /\ out[r].res # "ok") =>
            LET d == loc[r].diff
                k == loc[r].idx
            IN  /\ out[r].res = "raised"
                /\ Done(db) = g[r].pre.history \o SubSeq(d, 1, k - 1)
                /\ g[r].ran = SubSeq(d, 1, k)
                /\ \A j \in (k + 1)..Len(d) : d[j] \notin Range(Done(db))

\* C3: a run_one with fake=False that raises, wherever it raises, leaves the
\* history table as it was when the run_one was entered, upgrade or downgrade.
C3_FailedRunOneKeepsHistory ==
    \A r \in Routers :
        (OneRaised(r) /\ ~cur[r].fake) => Done(db) = g[r].ro.history

C3_Witness ==
    \E r \in Routers :
        /\ OneRaised(r) /\ ~cur[r].fake /\ cur[r].downgrade
        /\ out[r].at = "commit"
        /\ g[r].ro.history # <<>>

\* C4: with two routers calling run() on one database, no migration is applied
\* twice and no name is recorded twice in the history table (looked at when no
\* transaction is open).
C4_NoDoubleApply ==
    lock = 0 =>
        \A n \in Names : Count(Done(db), n) <= 1 /\ db.applied[n] <= 1

\* C5: diff is the subsequence of todo of the names not in done: it holds
\* exactly those names, and in the order todo has them, whatever the order of
\* done.  Looked at right after run() computed diff.
C5_DiffIsTodoMinusDone ==
    \A r \in Routers :
        (call[r].kind = "run"
            /\ (pc[r] = "get_migrator" \/ (pc[r] = "idle" /\ out[r].at = "nothing"))) =>
            LET todo == Todo(files)
                diff == loc[r].diff
            IN  /\ Range(diff) = Range(todo) \ Range(Done(db))
                /\ \A i, j \in 1..Len(diff) :
                      i < j => Pos(todo, diff[i]) < Pos(todo, diff[j])

C5_Witness ==
    \E r \in Routers :
        /\ call[r].kind = "run" /\ pc[r] = "get_migrator"
        /\ Len(Done(db)) = 2 /\ Done(db)[1] > Done(db)[2]
        /\ Len(loc[r].diff) = 1

\* C6: run(name) with a name given applies and records no migration ordered
\* after name.
C6_RunStopsAtName ==
    \A r \in Routers :
        (Ended(r) /\ call[r].kind = "run" /\ call[r].name # None /\ out[r].res = "ok") =>
            /\ \A i \in 1..Len(loc[r].ret) : ~(call[r].name < loc[r].ret[i])
            /\ \A n \in Names :
                  call[r].name < n => Count(Done(db), n) = Count(g[r].pre.history, n)

\* The part of C6 for a name that is pending: run applies the pending
\* migrations up to and including name, in todo order, and stops.
C6_StopsAtPendingName ==
    \A r \in Routers :
        (Ended(r) /\ call[r].kind = "run" /\ out[r].res = "ok"
            /\ call[r].name \in Range(loc[r].diff)) =>
            /\ loc[r].ret = SubSeq(loc[r].diff, 1, Pos(loc[r].diff, call[r].name))
            /\ Done(db) = g[r].pre.history \o loc[r].ret

\* C7: run(fake=True) records a history row for each pending migration, in
\* todo order, and executes no operation; afterwards the queue is empty and
\* diff is empty.
C7_FakeRunRecordsAll ==
    \A r \in Routers :
        (Ended(r) /\ call[r].kind = "run" /\ call[r].fake /\ call[r].name = None
            /\ out[r].res = "ok") =>
            /\ Done(db) = g[r].pre.history \o loc[r].diff
            /\ db.tables = g[r].pre.tables
            /\ g[r].execd = {}
            /\ migrator[r].ops = <<>>
            /\ Diff(Todo(files), Done(db)) = <<>>

Last(s) == IF s = <<>> THEN None ELSE s[Len(s)]

\* C11: a downgrade (run_one with fake=False, downgrade=True) of a migration
\* that is not the last entry of done is rejected before any database
\* interaction: it raises, sends no statement and leaves the history table as
\* it was.
C11_OnlyLastRolledBack ==
    \A r \in Routers :
        (g[r].ran # <<>> /\ pc[r] # "run_one" /\ cur[r].downgrade /\ ~cur[r].fake
            /\ cur[r].name # Last(g[r].ro.history)) =>
            /\ OneRaised(r)
            /\ g[r].stmts = g[r].ro.stmts
            /\ Done(db) = g[r].ro.history

\* The part of C11 about rollback() alone: the run_one it makes is the
\* downgrade of the last entry of done.
C11_RollbackTakesLast ==
    \A r \in Routers :
        (call[r].kind = "rollback" /\ g[r].ran # <<>>) =>
            /\ cur[r].downgrade /\ ~cur[r].fake
            /\ cur[r].name = Last(g[r].pre.history)

\* -------------------------------------------------------- rollback command
\* The largest --count given to the rollback command.
MaxCount == 3

CliCall(count) ==
    [kind |-> "cli_rollback", name |-> None, fake |-> FALSE, downgrade |-> TRUE,
     force |-> FALSE, count |-> count]

\* cli.rollback: a new Router (get_router), the check of count against done,
\* and the entry of the loop `for _ in range(count)`.
CliRollback(r, count) ==
    /\ Begin(r, CliCall(count))
    /\ migrator' = [migrator EXCEPT ![r] = NewMigrator]
    /\ cached' = [cached EXCEPT ![r] = FALSE]
    /\ loc' = [loc EXCEPT ![r] = NoLoc]
    /\ cur' = [cur EXCEPT ![r] = NoOne]
    /\ IF Len(Done(db)) < count
       THEN Raised(r, "count")
       ELSE IF count <= 0
            THEN /\ pc' = [pc EXCEPT ![r] = "idle"]
                 /\ out' = [out EXCEPT ![r] = [res |-> "ok", at |-> "end"]]
            ELSE /\ pc' = [pc EXCEPT ![r] = "cli_rollback"]
                 /\ out' = [out EXCEPT ![r] = [res |-> "none", at |-> ""]]
    /\ UNCHANGED <<auto, files, db, lock, snap>>

\* router.rollback() called by the loop of the rollback command, up to the
\* first use of the migrator.
CliRollbackStep(r) ==
    /\ pc[r] = "cli_rollback"
    /\ LET done == Done(db)
       IN  IF done = <<>>
           THEN /\ Raised(r, "empty")
                /\ cur' = cur
           ELSE /\ pc' = [pc EXCEPT ![r] = "get_migrator"]
                /\ out' = out
                /\ cur' = [cur EXCEPT ![r] = One(done[Len(done)], FALSE, TRUE, FALSE)]
    /\ UNCHANGED <<auto, files, db, lock, call, loc, migrator, cached, snap, g, calls>>

\* The loop of the rollback command after router.rollback() returned.
CliNext(r) ==
    /\ pc[r] = "cli_next"
    /\ IF loc[r].idx >= call[r].count
       THEN /\ pc' = [pc EXCEPT ![r] = "idle"]
            /\ out' = [out EXCEPT ![r] = [res |-> "ok", at |-> "end"]]
            /\ loc' = loc
       ELSE /\ pc' = [pc EXCEPT ![r] = "cli_rollback"]
            /\ out' = out
            /\ loc' = [loc EXCEPT ![r].idx = @ + 1]
    /\ UNCHANGED <<auto, files, db, lock, call, cur, migrator, cached, snap, g, calls>>

\* cli.migrate by a process, before the rollback command is given.
CliMigrate(r) ==
    /\ call[1].kind # "cli_rollback"
    /\ Run(r, None, FALSE)

\* The rollback command given when no other command is running.
CliRollbackAlone(count) ==
    /\ \A q \in Routers : pc[q] = "idle"
    /\ CliRollback(1, count)

\* The migrate command run by two processes on one database; when they have
\* ended, the rollback command, run by itself.
NextCli ==
    \/ \E r \in Routers :
          \/ CliMigrate(r)
          \/ GetMigrator(r)
          \/ RoBegin(r)
          \/ RoFlush(r)
          \/ RoHistory(r)
          \/ RoCommit(r)
          \/ RunNext(r)
    \/ \E count \in 0..MaxCount : CliRollbackAlone(count)
    \/ CliRollbackStep(1)
    \/ CliNext(1)

SpecCli == Init /\ [][NextCli]_vars

\* reversed(s)
Reverse(s) == [i \in 1..Len(s) |-> s[Len(s) + 1 - i]]

\* No name is recorded twice.
Distinct(s) == Cardinality(Range(s)) = Len(s)

\* C12: the rollback command with count N raises before it rolls anything
\* back, leaving done unchanged, when N is greater than the number of history
\* entries; otherwise, when it returns, it has rolled back exactly the last N
\* entries, most recent first, and done is its former prefix of length
\* len(done) - N.
C12_RollbackCount ==
    \A r \in Routers :
        (Ended(r) /\ call[r].kind = "cli_rollback") =>
            LET n == call[r].count
                h == g[r].pre.history
            IN  IF n > Len(h)
                THEN /\ out[r].res = "raised"
                     /\ g[r].ran = <<>> /\ g[r].stmts = 0
                     /\ Done(db) = h
                ELSE out[r].res = "ok" =>
                        /\ Done(db) = SubSeq(h, 1, Len(h) - n)
                        /\ g[r].ran = Reverse(SubSeq(h, Len(h) - n + 1, Len(h)))

\* The part of C12 that holds: the same, for a history table in which no name
\* is recorded twice.
C12_RollbackCountDistinct ==
    \A r \in Routers :
        (Ended(r) /\ call[r].kind = "cli_rollback" /\ Distinct(g[r].pre.history)) =>
            LET n == call[r].count
                h == g[r].pre.history
            IN  IF n > Len(h)
                THEN /\ out[r].res = "raised"
                     /\ g[r].ran = <<>> /\ g[r].stmts = 0
                     /\ Done(db) = h
                ELSE out[r].res = "ok" =>
                        /\ Done(db) = SubSeq(h, 1, Len(h) - n)
                        /\ g[r].ran = Reverse(SubSeq(h, Len(h) - n + 1, Len(h)))

\* ------------------------------------------------------------ schema models
\* A field of a model class (pw.Field): its name, its class ("char", "int" or
\* "fk"), the table a foreign key refers to ("" otherwise), the null, index
\* and unique flags, the name of its column and its default ("" for None,
\* "now" for a callable, else the literal).
Field(name, type, rel, null, index, unique, column_name, default) ==
    [name |-> name, type |-> type, rel |-> rel, null |-> null, index |-> index,
     unique |-> unique, column_name |-> column_name, default |-> default]

\* callable(field.default)
Callable(default) == default = "now"

IsFK(f) == f.type = "fk"

\* The default column of a foreign key named name: name + "_id".
FKColumn(name) == IF name = "f" THEN "f_id" ELSE "h_id"

\* repr() of a flag
Str(b) == IF b THEN "True" ELSE "False"

\* Column.get_field_parameters, the part inherited from the reflection column
\* (params = super().get_field_parameters()): keyword -> value pairs.  null is
\* given only when True, column_name only for a foreign key or when it differs
\* from the field's name, unique takes precedence over index, and a foreign
\* key never gets index.
VanilaColumn_params(f) ==
    (IF f.null THEN {<<"null", "True">>} ELSE {})
    \cup (IF IsFK(f) \/ f.name # f.column_name
          THEN {<<"column_name", f.column_name>>} ELSE {})
    \cup (IF IsFK(f) THEN {<<"model", f.rel>>} ELSE {})
    \cup (IF f.unique THEN {<<"unique", "True">>}
          ELSE IF f.index /\ ~IsFK(f) THEN {<<"index", "True">>} ELSE {})

\* Column.get_field_parameters.  With change=True (compare_fields, which also
\* hands over the index and unique flags of the field) null, unique and index
\* are always present: null and unique are the flags, index is index or unique;
\* a default that is not callable is given, but not with change=True.
get_field_parameters(f, change) ==
    IF ~change
    THEN VanilaColumn_params(f)
         \cup (IF f.default # "" /\ ~Callable(f.default)
               THEN {<<"default", f.default>>} ELSE {})
    ELSE {p \in VanilaColumn_params(f) : p[1] \notin {"null", "unique", "index"}}
         \cup {<<"null", Str(f.null)>>, <<"unique", Str(f.unique)>>,
               <<"index", Str(f.index \/ f.unique)>>}

\* (mutant) the comparison of two fields reporting a change of type always
compare_fields_Type(field1, field2) == {<<"type", "True">>}

\* compare_fields: the items of field1's parameters that field2's parameters
\* do not hold.
compare_fields(field1, field2) ==
    IF field1.type # field2.type THEN {<<"type", "True">>}
    ELSE get_field_parameters(field1, TRUE) \ get_field_parameters(field2, TRUE)

\* The field that pw.<Class>(**params) constructs when the generated code is
\* executed: flags not given take the defaults of the class (null, unique and
\* index False, but index True for a foreign key; the column is the name, or
\* name + "_id" for a foreign key).
pw_Field(name, type, rel, params) ==
    LET col == {p[2] : p \in {q \in params : q[1] = "column_name"}}
        def == {p[2] : p \in {q \in params : q[1] = "default"}}
    IN  Field(name, type, rel,
              <<"null", "True">> \in params,
              <<"index", "True">> \in params \/ type = "fk",
              <<"unique", "True">> \in params,
              IF col # {} THEN CHOOSE c \in col : TRUE
              ELSE IF type = "fk" THEN FKColumn(name) ELSE name,
              IF def # {} THEN CHOOSE d \in def : TRUE ELSE "")

\* field_to_code: the field as the generated code declares it.
field_to_code(f) == pw_Field(f.name, f.type, f.rel, get_field_parameters(f, FALSE))

\* A model class with its Meta: class name, table name, the fields in the
\* order of meta.sorted_fields and meta.indexes (field names, unique).
SchemaModel(name, tname, fields, indexes) ==
    [name |-> name, tname |-> tname, fields |-> fields, indexes |-> indexes]

MetaIndex(cols, unique) == [cols |-> cols, unique |-> unique]

FieldNames(model) == {model.fields[i].name : i \in 1..Len(model.fields)}

\* meta.fields.get(name)
HasField(model, name) == name \in FieldNames(model)

GetField(model, name) ==
    model.fields[CHOOSE i \in 1..Len(model.fields) : model.fields[i].name = name]

\* model_fields_gen: the fields of the model with these names, in the order of
\* meta.sorted_fields.
model_fields_gen(model, names) == SelectSeq(model.fields, LAMBDA f : f.name \in names)

\* meta.combined[part]: a field by its name or by its column.
Combined(model, part) ==
    LET hit == {i \in 1..Len(model.fields) :
                    model.fields[i].name = part \/ model.fields[i].column_name = part}
    IN  IF hit = {} THEN part ELSE model.fields[Min(hit)].column_name

\* pw.ModelIndex: the index name is made of the table name and the columns.
ModelIndex(model, cols, unique) ==
    [name |-> <<model.tname>> \o [i \in 1..Len(cols) |-> Combined(model, cols[i])],
     tname |-> model.tname, fields |-> cols, unique |-> unique]

\* meta.fields_to_index(): one index per field that has index or unique set,
\* then the entries of meta.indexes.
fields_to_index(model) ==
    LET flagged == SelectSeq(model.fields, LAMBDA f : f.index \/ f.unique)
    IN  [i \in 1..Len(flagged) |->
            ModelIndex(model, <<flagged[i].name>>, flagged[i].unique)]
        \o [i \in 1..Len(model.indexes) |->
               ModelIndex(model, model.indexes[i].cols, model.indexes[i].unique)]

\* The order of index names as strings.
RECURSIVE NameLess(_, _)
NameLess(s, t) ==
    IF s = <<>> THEN t # <<>>
    ELSE IF t = <<>> THEN FALSE
    ELSE IF Head(s) = Head(t) THEN NameLess(Tail(s), Tail(t))
    ELSE Ord(Head(s)) < Ord(Head(t))

\* sorted(names) of a set of index names
RECURSIVE SortedNames(_)
SortedNames(S) ==
    IF S = {} THEN <<>>
    ELSE LET m == CHOOSE x \in S : \A y \in S : x = y \/ NameLess(x, y)
         IN  <<m>> \o SortedNames(S \ {m})

\* next(idx for idx in indexes if idx._name == name)
NextIndex(indexes, name) ==
    indexes[Min({i \in 1..Len(indexes) : indexes[i].name = name})]

\* Concatenation of a sequence of sequences.
RECURSIVE Flatten(_)
Flatten(ss) == IF ss = <<>> THEN <<>> ELSE Head(ss) \o Flatten(Tail(ss))

\* ------------------------------------------------------- auto: the differ
\* The differ returns migration code; a piece of code is kept as the Migrator
\* call it makes when it is executed, with the arguments the text carries.

\* model_to_code: the class as the generated code declares it.
model_to_code(model) ==
    SchemaModel(model.name, model.tname,
                [i \in 1..Len(model.fields) |-> field_to_code(model.fields[i])],
                model.indexes)

\* auto.create_model: "@migrator.create_model class ..."
auto_create_model(model) ==
    [m |-> "create_model", tname |-> model.tname, model |-> model_to_code(model)]

\* auto.remove_model: "migrator.remove_model('<table>')"
auto_remove_model(model) == [m |-> "remove_model", tname |-> model.tname]

\* (mutant) create_fields carrying the first field only
create_fields_First(model, fields) ==
    [m |-> "add_fields", tname |-> model.tname,
     fields |-> <<field_to_code(fields[1])>>]

\* create_fields: one migrator.add_fields call for all the fields
create_fields(model, fields) ==
    [m |-> "add_fields", tname |-> model.tname,
     fields |-> [i \in 1..Len(fields) |-> field_to_code(fields[i])]]

\* drop_fields: one migrator.remove_fields call for all the names
drop_fields(model, fields) ==
    [m |-> "remove_fields", tname |-> model.tname,
     names |-> [i \in 1..Len(fields) |-> fields[i].name]]

\* auto.change_fields: migrator.change_fields for the fields given
auto_change_fields(model, fields) ==
    [m |-> "change_fields", tname |-> model.tname,
     fields |-> [i \in 1..Len(fields) |-> field_to_code(fields[i])]]

\* change_not_null
change_not_null(model, name, null) ==
    [m |-> IF null THEN "drop_not_null" ELSE "add_not_null",
     tname |-> model.tname, names |-> <<name>>]

\* (mutant) add_index losing the unique flag of the index
auto_add_index_NonUnique(idx) ==
    [m |-> "add_index", tname |-> idx.tname, names |-> idx.fields, unique |-> FALSE]

\* auto.add_index
auto_add_index(idx) ==
    [m |-> "add_index", tname |-> idx.tname, names |-> idx.fields,
     unique |-> idx.unique]

\* auto.drop_index
auto_drop_index(idx) == [m |-> "drop_index", tname |-> idx.tname, names |-> idx.fields]

\* diff_model_fields: the added fields, the removed fields, then every field
\* of both models that compare_fields finds changed, each followed at once by
\* its not-null change when null is among the differences.
diff_model_fields(model, source) ==
    LET model_fields     == FieldNames(model)
        source_fields    == FieldNames(source)
        fields_to_add    == model_fields \ source_fields
        fields_to_remove == source_fields \ model_fields
        fields_to_change == (model_fields \ fields_to_add) \ fields_to_remove
        adds  == IF fields_to_add = {} THEN <<>>
                 ELSE <<create_fields(model, model_fields_gen(model, fields_to_add))>>
        drops == IF fields_to_remove = {} THEN <<>>
                 ELSE <<drop_fields(model, model_fields_gen(source, fields_to_remove))>>
        both  == model_fields_gen(model, fields_to_change)
        Changed(field) ==
            LET diff == compare_fields(field, GetField(source, field.name))
            IN  IF diff = {} THEN <<>>
                ELSE <<auto_change_fields(model, <<field>>)>>
                     \o (IF \E p \in diff : p[1] = "null"
                         THEN <<change_not_null(model, field.name, field.null)>>
                         ELSE <<>>)
    IN  adds \o drops \o Flatten([i \in 1..Len(both) |-> Changed(both[i])])

\* (mutant) a changed index added before the old one is dropped
diff_model_indexes_AddFirst(model, source) ==
    LET model_indexes  == fields_to_index(model)
        source_indexes == fields_to_index(source)
        model_names    == {model_indexes[i].name : i \in 1..Len(model_indexes)}
        source_names   == {source_indexes[i].name : i \in 1..Len(source_indexes)}
        to_drop  == SortedNames(source_names \ model_names)
        to_add   == SortedNames(model_names \ source_names)
        to_check == SortedNames(model_names \cap source_names)
        Checked(name) ==
            LET idx1 == NextIndex(model_indexes, name)
                idx2 == NextIndex(source_indexes, name)
            IN  IF idx1.unique # idx2.unique \/ Len(idx1.fields) # Len(idx2.fields)
                THEN <<auto_add_index(idx1), auto_drop_index(idx2)>>
                ELSE <<>>
    IN  [i \in 1..Len(to_drop) |-> auto_drop_index(NextIndex(source_indexes, to_drop[i]))]
        \o [i \in 1..Len(to_add) |-> auto_add_index(NextIndex(model_indexes, to_add[i]))]
        \o Flatten([i \in 1..Len(to_check) |-> Checked(to_check[i])])

\* diff_model_indexes: by index name, the indexes to drop, the indexes to add,
\* then drop and add for an index of both whose unique flag (or number of
\* expressions) differs.
diff_model_indexes(model, source) ==
    LET model_indexes  == fields_to_index(model)
        source_indexes == fields_to_index(source)
        model_names    == {model_indexes[i].name : i \in 1..Len(model_indexes)}
        source_names   == {source_indexes[i].name : i \in 1..Len(source_indexes)}
        to_drop  == SortedNames(source_names \ model_names)
        to_add   == SortedNames(model_names \ source_names)
        to_check == SortedNames(model_names \cap source_names)
        Checked(name) ==
            LET idx1 == NextIndex(model_indexes, name)
                idx2 == NextIndex(source_indexes, name)
            IN  IF idx1.unique # idx2.unique \/ Len(idx1.fields) # Len(idx2.fields)
                THEN <<auto_drop_index(idx2), auto_add_index(idx1)>>
                ELSE <<>>
    IN  [i \in 1..Len(to_drop) |-> auto_drop_index(NextIndex(source_indexes, to_drop[i]))]
        \o [i \in 1..Len(to_add) |-> auto_add_index(NextIndex(model_indexes, to_add[i]))]
        \o Flatten([i \in 1..Len(to_check) |-> Checked(to_check[i])])

\* (mutant) the index changes put before the field changes
diff_model_IndexesFirst(model, source) ==
    diff_model_indexes(model, source) \o diff_model_fields(model, source)

\* diff_model (for two models of one table name)
diff_model(model, source) ==
    diff_model_fields(model, source) \o diff_model_indexes(model, source)

\* str.lower() of a class name (meta.name)
Lower(x) == IF x = "A" THEN "a" ELSE IF x = "B" THEN "b" ELSE IF x = "C" THEN "c" ELSE x

\* pw.sort_models: the models in the order of (meta.name, table_name), each
\* after the models its foreign keys refer to.
RECURSIVE dfs(_, _, _)
RECURSIVE dfs_refs(_, _, _)
dfs_refs(st, rels, models) ==
    IF rels = <<>> THEN st
    ELSE LET hit == {m \in models : m.tname = Head(rels)}
         IN  dfs_refs(IF hit = {} THEN st ELSE dfs(st, CHOOSE m \in hit : TRUE, models),
                      Tail(rels), models)

dfs(st, model, models) ==
    IF model \in st.seen THEN st
    ELSE LET fks == SelectSeq(model.fields, LAMBDA f : f.type = "fk")
             st2 == dfs_refs([st EXCEPT !.seen = @ \cup {model}],
                             [i \in 1..Len(fks) |-> fks[i].rel], models)
         IN  [st2 EXCEPT !.ordering = Append(@, model)]

RECURSIVE dfs_all(_, _, _)
dfs_all(st, todo, models) ==
    IF todo = {} THEN st.ordering
    ELSE LET key(m) == <<Lower(m.name), m.tname>>
             m == CHOOSE x \in todo : \A y \in todo : ~NameLess(key(y), key(x))
         IN  dfs_all(dfs(st, m, models), todo \ {m}, models)

sort_models(models) == dfs_all([seen |-> {}, ordering |-> <<>>], models, models)

\* The keys of {m._meta.table_name: m for m in models}, in insertion order.
RECURSIVE Keys(_)
Keys(ms) ==
    IF ms = <<>> THEN <<>>
    ELSE <<Head(ms).tname>> \o SelectSeq(Keys(Tail(ms)), LAMBDA n : n # Head(ms).tname)

Max(S) == CHOOSE x \in S : \A y \in S : x >= y

\* The value of that dict at a key: the last model of that table name.
ByTable(ms, name) == ms[Max({i \in 1..Len(ms) : ms[i].tname = name})]

\* diff_many: the changes of the tables of both lists, then the models to
\* create, then the models to remove.
diff_many(active, source, reverse) ==
    LET a  == IF reverse THEN Reverse(sort_models(active)) ELSE sort_models(active)
        s  == IF reverse THEN Reverse(sort_models(source)) ELSE sort_models(source)
        ak == Keys(a)
        sk == Keys(s)
        both    == SelectSeq(ak, LAMBDA n : n \in Range(sk))
        created == SelectSeq(ak, LAMBDA n : n \notin Range(sk))
        removed == SelectSeq(sk, LAMBDA n : n \notin Range(ak))
    IN  Flatten([i \in 1..Len(both) |-> diff_model(ByTable(a, both[i]), ByTable(s, both[i]))])
        \o [i \in 1..Len(created) |-> auto_create_model(ByTable(a, created[i]))]
        \o [i \in 1..Len(removed) |-> auto_remove_model(ByTable(s, removed[i]))]

\* diff_many raises: diff_model is given two models of different table names
\* ("Cannot diff models with different table names").  The two models are
\* the values of the two dicts at one key, the table name.
diff_many_raises(active, source, reverse) ==
    LET a  == IF reverse THEN Reverse(sort_models(active)) ELSE sort_models(active)
        s  == IF reverse THEN Reverse(sort_models(source)) ELSE sort_models(source)
        both == SelectSeq(Keys(a), LAMBDA n : n \in Range(Keys(s)))
    IN  \E i \in 1..Len(both) : ByTable(a, both[i]).tname # ByTable(s, both[i]).tname

\* ------------------------------------- Migrator: the methods on schema models
\* meta.add_field(name, field): a field of that name is replaced; the new
\* field object sorts after the fields the class already has.
AddField(model, field) ==
    [model EXCEPT !.fields = Append(SelectSeq(@, LAMBDA f : f.name # field.name), field)]

\* meta.remove_field(name)
RemoveField(model, name) ==
    [model EXCEPT !.fields = SelectSeq(@, LAMBDA f : f.name # name)]

\* make_index_name(table, columns)
make_index_name(table, columns) == <<table>> \o columns

\* Migrator.create_model with the class the generated code declares.
Migrator_create_model(mg, c, mig) ==
    Ret([orm |-> ORM_add(mg.orm, c.model),
         ops |-> Append(mg.ops,
                        Op("create_table", c.tname,
                           {c.model.fields[i].column_name : i \in 1..Len(c.model.fields)},
                           mig))], TRUE)

\* Migrator.remove_model('<table>')
Migrator_remove_model(mg, c, mig) ==
    remove_model(mg, Call("remove_model", c.tname, c.tname, {}), mig)

\* Migrator.add_fields('<table>', name=field, ...)
RECURSIVE AddFields(_, _, _, _)
AddFields(model, ops, fields, mig) ==
    IF fields = <<>> THEN [model |-> model, ops |-> ops]
    ELSE AddFields(AddField(model, Head(fields)),
                   Append(ops, Op("add_column", model.tname, Head(fields).column_name, mig)),
                   Tail(fields), mig)

Migrator_add_fields(mg, c, mig) ==
    IF ~HasModel(mg.orm, c.tname) THEN Ret(mg, FALSE)
    ELSE LET model == GetModel(mg.orm, c.tname)
             r     == AddFields(model, mg.ops, c.fields, mig)
         IN  Ret([orm |-> Mutate(mg.orm, model, r.model), ops |-> r.ops], TRUE)

\* Migrator.change_fields, one field: the field replaces the old one; a
\* foreign key has its constraint dropped and added; a changed column name is
\* a rename; and when the unique flag changed (not for a foreign key)
\* meta.indexes gets or loses ((column,), True) and the index is added or
\* dropped; the index that is dropped is named by the column alone.
ChangeField(model, ops, field, mig) ==
    LET old_field == IF HasField(model, field.name) THEN GetField(model, field.name)
                     ELSE field
        t      == model.tname
        added  == AddField(model, field)
        ops1   == IF IsFK(old_field)
                  THEN Append(ops, Op("drop_fk", t, old_field.column_name, mig)) ELSE ops
        ops2   == IF old_field.column_name # field.column_name
                  THEN Append(ops1, Op("rename_column", t, field.column_name, mig)) ELSE ops1
        entry  == MetaIndex(<<field.column_name>>, TRUE)
        first  == {i \in 1..Len(added.indexes) : added.indexes[i] = entry}
    IN  IF IsFK(field)
        THEN [model |-> added, ops |-> Append(ops2, Op("add_fk", t, field.column_name, mig))]
        ELSE LET ops3 == Append(ops2, Op("change_column", t, field.column_name, mig))
             IN  IF field.unique = old_field.unique
                 THEN [model |-> added, ops |-> ops3]
                 ELSE IF field.unique
                 THEN [model |-> [added EXCEPT !.indexes = Append(@, entry)],
                       ops   |-> Append(ops3, Op("add_index", t, <<field.column_name>>, mig))]
                 ELSE [model |-> IF first = {} THEN added
                                 ELSE [added EXCEPT !.indexes =
                                          [i \in 1..(Len(@) - 1) |->
                                              IF i < Min(first) THEN @[i] ELSE @[i + 1]]],
                       ops   |-> Append(ops3, Op("drop_index", t, <<field.column_name>>, mig))]

RECURSIVE ChangeFields(_, _, _, _)
ChangeFields(model, ops, fields, mig) ==
    IF fields = <<>> THEN [model |-> model, ops |-> ops]
    ELSE LET r == ChangeField(model, ops, Head(fields), mig)
         IN  ChangeFields(r.model, r.ops, Tail(fields), mig)

\* Migrator.change_fields('<table>', name=field, ...)
Migrator_change_fields(mg, c, mig) ==
    IF ~HasModel(mg.orm, c.tname) THEN Ret(mg, FALSE)
    ELSE LET model == GetModel(mg.orm, c.tname)
             r     == ChangeFields(model, mg.ops, c.fields, mig)
         IN  Ret([orm |-> Mutate(mg.orm, model, r.model), ops |-> r.ops], TRUE)

\* Migrator.remove_fields('<table>', *names): the fields of the class that are
\* named, in the order of meta.fields; a unique field has its index dropped
\* before its column.
RECURSIVE RemoveFields(_, _, _, _)
RemoveFields(model, ops, fields, mig) ==
    IF fields = <<>> THEN [model |-> model, ops |-> ops]
    ELSE LET field == Head(fields)
             ops1  == IF field.unique
                      THEN Append(ops, Op("drop_index", model.tname,
                                          make_index_name(model.tname, <<field.column_name>>),
                                          mig))
                      ELSE ops
         IN  RemoveFields(RemoveField(model, field.name),
                          Append(ops1, Op("drop_column", model.tname, field.column_name, mig)),
                          Tail(fields), mig)

Migrator_remove_fields(mg, c, mig) ==
    IF ~HasModel(mg.orm, c.tname) THEN Ret(mg, FALSE)
    ELSE LET model == GetModel(mg.orm, c.tname)
             r     == RemoveFields(model, mg.ops,
                                   model_fields_gen(model, Range(c.names)), mig)
         IN  Ret([orm |-> Mutate(mg.orm, model, r.model), ops |-> r.ops], TRUE)

\* The flags a one-column add_index / drop_index sets on the field.
SetIndexFlags(model, name, index, unique) ==
    [model EXCEPT !.fields =
        [i \in 1..Len(@) |-> IF @[i].name = name
                             THEN [@[i] EXCEPT !.index = index, !.unique = unique]
                             ELSE @[i]]]

\* Migrator.add_index('<table>', *columns, unique=): (columns, unique) is
\* appended to meta.indexes; a one-column index sets unique and index (= not
\* unique) on the field; a column the class has no field of raises
\* AttributeError after meta.indexes was changed.
Migrator_add_index(mg, c, mig) ==
    IF ~HasModel(mg.orm, c.tname) THEN Ret(mg, FALSE)
    ELSE LET model   == GetModel(mg.orm, c.tname)
             listed  == [model EXCEPT !.indexes = Append(@, MetaIndex(c.names, c.unique))]
             missing == {i \in 1..Len(c.names) : ~HasField(model, c.names[i])}
             upto    == IF missing = {} THEN Len(c.names) ELSE Min(missing) - 1
             flagged == IF Len(c.names) = 1 /\ upto = 1
                        THEN SetIndexFlags(listed, c.names[1], ~c.unique, c.unique)
                        ELSE listed
         IN  IF missing # {}
             THEN Ret([mg EXCEPT !.orm = Mutate(mg.orm, model, flagged)], FALSE)
             ELSE Ret([orm |-> Mutate(mg.orm, model, flagged),
                       ops |-> Append(mg.ops,
                                      Op("add_index", model.tname,
                                         [i \in 1..Len(c.names) |->
                                             GetField(model, c.names[i]).column_name],
                                         mig))], TRUE)

\* Migrator.drop_index('<table>', *columns): a column the class has no field
\* of is skipped; a one-column index clears unique and index on the field;
\* meta.indexes loses every entry of these columns.
Migrator_drop_index(mg, c, mig) ==
    IF ~HasModel(mg.orm, c.tname) THEN Ret(mg, FALSE)
    ELSE LET model   == GetModel(mg.orm, c.tname)
             found   == SelectSeq(c.names, LAMBDA n : HasField(model, n))
             cleared == IF Len(c.names) = 1 /\ Len(found) = 1
                        THEN SetIndexFlags(model, c.names[1], FALSE, FALSE)
                        ELSE model
             new     == [cleared EXCEPT !.indexes = SelectSeq(@, LAMBDA e : e.cols # c.names)]
         IN  Ret([orm |-> Mutate(mg.orm, model, new),
                  ops |-> Append(mg.ops,
                                 Op("drop_index", model.tname,
                                    make_index_name(model.tname,
                                       [i \in 1..Len(found) |->
                                           GetField(model, found[i]).column_name]),
                                    mig))], TRUE)

\* Migrator.add_not_null / drop_not_null('<table>', *names), the loop over the
\* names: meta.fields[name] raises KeyError for a name the class has no field
\* of, after the names before it were handled.
RECURSIVE SetNulls(_, _, _, _, _, _)
SetNulls(model, ops, names, null, kind, mig) ==
    IF names = <<>> THEN [model |-> model, ops |-> ops, ok |-> TRUE]
    ELSE IF ~HasField(model, Head(names)) THEN [model |-> model, ops |-> ops, ok |-> FALSE]
    ELSE SetNulls([model EXCEPT !.fields =
                      [i \in 1..Len(@) |->
                          IF @[i].name = Head(names)
                          THEN [@[i] EXCEPT !.null = null] ELSE @[i]]],
                  Append(ops, Op(kind, model.tname,
                                 GetField(model, Head(names)).column_name, mig)),
                  Tail(names), null, kind, mig)

SetNull(mg, c, null, kind, mig) ==
    IF ~HasModel(mg.orm, c.tname) THEN Ret(mg, FALSE)
    ELSE LET model == GetModel(mg.orm, c.tname)
             r     == SetNulls(model, mg.ops, c.names, null, kind, mig)
         IN  Ret([orm |-> Mutate(mg.orm, model, r.model), ops |-> r.ops], r.ok)

Migrator_add_not_null(mg, c, mig) == SetNull(mg, c, FALSE, "add_not_null", mig)

Migrator_drop_not_null(mg, c, mig) == SetNull(mg, c, TRUE, "drop_not_null", mig)

\* One call of the generated code on the migrator.  The arguments are
\* evaluated first: a foreign key is declared with model=migrator.orm['<table>'],
\* which raises KeyError when the registry has no class under that table name,
\* before the method is called.
Exec(mg, c, mig) ==
    LET fields == IF c.m = "create_model" THEN c.model.fields
                  ELSE IF c.m \in {"add_fields", "change_fields"} THEN c.fields
                  ELSE <<>>
    IN  IF \E i \in 1..Len(fields) :
               IsFK(fields[i]) /\ fields[i].rel \notin DOMAIN mg.orm.tables
        THEN Ret(mg, FALSE)
        ELSE CASE c.m = "create_model"  -> Migrator_create_model(mg, c, mig)
               [] c.m = "remove_model"  -> Migrator_remove_model(mg, c, mig)
               [] c.m = "add_fields"    -> Migrator_add_fields(mg, c, mig)
               [] c.m = "remove_fields" -> Migrator_remove_fields(mg, c, mig)
               [] c.m = "change_fields" -> Migrator_change_fields(mg, c, mig)
               [] c.m = "add_not_null"  -> Migrator_add_not_null(mg, c, mig)
               [] c.m = "drop_not_null" -> Migrator_drop_not_null(mg, c, mig)
               [] c.m = "add_index"     -> Migrator_add_index(mg, c, mig)
               [] c.m = "drop_index"    -> Migrator_drop_index(mg, c, mig)

\* The generated migrate()/rollback() called on the migrator: its calls in
\* order, stopping at the first one that raises.
RECURSIVE ExecCode(_, _, _)
ExecCode(mg, code, mig) ==
    IF code = <<>> THEN Ret(mg, TRUE)
    ELSE LET r == Exec(mg, Head(code), mig)
         IN  IF r.ok THEN ExecCode(r.mg, Tail(code), mig) ELSE r

\* ------------------------------------------- auto migrations between snapshots
\* The declarations of field f of table a: a CharField with every combination
\* of null, index / unique and column name, or an IntegerField with no
\* default, a literal one or a callable one.
FDeclared ==
    {Field("f", "char", "", n, iu[1], iu[2], c, "") :
        n \in BOOLEAN, iu \in {<<FALSE, FALSE>>, <<TRUE, FALSE>>, <<FALSE, TRUE>>},
        c \in {"f", "c"}}
    \cup {Field("f", "int", "", FALSE, FALSE, FALSE, "f", d) : d \in {"", "0", "now"}}

\* The declarations of field h of table a: a CharField, or a foreign key to
\* table b (null or not).
HDeclared ==
    {Field("h", "char", "", FALSE, FALSE, FALSE, "h", "")}
    \cup {Field("h", "fk", "b", n, TRUE, FALSE, FKColumn("h"), "") : n \in BOOLEAN}

\* The versions of model A (table a): fields f and h, each declared or not,
\* and when both are, possibly a composite index on them.
ADeclared ==
    {SchemaModel("A", "a", fs, <<>>) :
        fs \in {<<>>} \cup {<<f>> : f \in FDeclared} \cup {<<h>> : h \in HDeclared}
               \cup {<<fh[1], fh[2]>> : fh \in FDeclared \X HDeclared}}
    \cup {SchemaModel("A", "a", <<fh[1], fh[2]>>, <<MetaIndex(<<"f", "h">>, u)>>) :
            fh \in FDeclared \X HDeclared, u \in BOOLEAN}

\* Model B (table b), the target of the foreign key.
BDeclared == SchemaModel("B", "b", <<>>, <<>>)

\* The schema snapshots: at most one version of each table, and table b with
\* every foreign key to it.
Snapshots ==
    {S \in {as \cup bs : as \in {{}} \cup {{a} : a \in ADeclared},
                         bs \in {{}, {BDeclared}}} :
        \A m \in S : \A i \in 1..Len(m.fields) :
            IsFK(m.fields[i]) => \E t \in S : t.tname = m.fields[i].rel}

\* A registry holding the models of a snapshot.
RECURSIVE Registered(_, _)
Registered(orm, ms) ==
    IF ms = <<>> THEN orm ELSE Registered(ORM_add(orm, Head(ms)), Tail(ms))

\* list(migrator.orm)
Models(orm) == {orm.models[k] : k \in DOMAIN orm.models}

\* compile_migrations(migrator, models, reverse=): the code of the diff
\* between the registry and the models; with reverse the two are swapped.
compile_migrations(mg, models, reverse) ==
    IF reverse THEN diff_many(Models(mg.orm), models, TRUE)
    ELSE diff_many(models, Models(mg.orm), FALSE)

\* Two snapshots A and B are drawn and the registry is at A.
InitAuto ==
    /\ RouterInit
    /\ \E A \in Snapshots, B \in Snapshots :
          auto = [A |-> A, B |-> B, at |-> "A", ok |-> TRUE,
                  mg |-> [orm |-> Registered(NewORM, sort_models(A)), ops |-> <<>>],
                  migrate |-> <<>>, rollback |-> <<>>]

\* A migration is created for target B on the registry at A (its migrate
\* function is the code of diff(B, A), its rollback function the code of the
\* reverse diff diff(A, B)) and it is applied.
AutoMigrate ==
    /\ auto.at = "A"
    /\ LET migrate  == compile_migrations(auto.mg, auto.B, FALSE)
           rollback == compile_migrations(auto.mg, auto.B, TRUE)
           r == ExecCode(auto.mg, migrate, None)
       IN  auto' = [auto EXCEPT !.mg = r.mg, !.ok = r.ok, !.at = "B",
                                !.migrate = migrate, !.rollback = rollback]
    /\ UNCHANGED <<files, db, lock, pc, call, cur, loc, migrator, cached, snap, out, g, calls>>

\* That migration is rolled back.
AutoRollback ==
    /\ auto.at = "B"
    /\ auto.ok
    /\ LET r == ExecCode(auto.mg, auto.rollback, None)
       IN  auto' = [auto EXCEPT !.mg = r.mg, !.ok = r.ok, !.at = "back"]
    /\ UNCHANGED <<files, db, lock, pc, call, cur, loc, migrator, cached, snap, out, g, calls>>

NextAuto == AutoMigrate \/ AutoRollback

SpecAuto == InitAuto /\ [][NextAuto]_vars

TableDiff(code, t) ==
    SelectSeq(code, LAMBDA c : c.tname = t /\ c.m \notin {"create_model", "remove_model"})

\* The group of a call in the order the specification states.
Rank(c) ==
    CASE c.m = "add_fields" -> 1
      [] c.m = "remove_fields" -> 2
      [] c.m = "change_fields" -> 3
      [] c.m \in {"add_not_null", "drop_not_null"} -> 4
      [] c.m \in {"add_index", "drop_index"} -> 5

\* No add_not_null of a field comes before the add_fields that adds it.
NotNullAfterAdd(ops) ==
    \A i \in 1..Len(ops) : \A j \in 1..Len(ops) :
        /\ ops[i].m = "add_not_null"
        /\ ops[j].m = "add_fields"
        /\ \E k \in 1..Len(ops[j].fields) : ops[j].fields[k].name = ops[i].names[1]
        => j < i

Structure(S) ==
    {[tname   |-> m.tname,
      fields  |-> {[name |-> m.fields[i].name, type |-> m.fields[i].type,
                    rel |-> m.fields[i].rel, null |-> m.fields[i].null,
                    unique |-> m.fields[i].unique,
                    column_name |-> m.fields[i].column_name] : i \in 1..Len(m.fields)},
      indexes |-> LET idx == fields_to_index(m)
                  IN  {[name |-> idx[i].name, unique |-> idx[i].unique] :
                          i \in 1..Len(idx)}] : m \in S}

\* C19 (as stated) -- Round trip: the migration from A to B applied and then
\* rolled back on a registry at A leaves a registry structurally equal to A.
C19_RoundTrip ==
    auto.at = "back" => auto.ok /\ Structure(Models(auto.mg.orm)) = Structure(auto.A)

\* Every field the two snapshots both have has the same column in both.
SameColumns(A, B) ==
    \A m \in B : \A s \in A :
        m.tname = s.tname =>
            \A n \in FieldNames(m) \cap FieldNames(s) :
                GetField(m, n).column_name = GetField(s, n).column_name

\* Every table a foreign key of the two snapshots refers to is in both.
TargetsKept(A, B) ==
    \A m \in A \cup B : \A i \in 1..Len(m.fields) :
        IsFK(m.fields[i]) =>
            /\ \E t \in A : t.tname = m.fields[i].rel
            /\ \E t \in B : t.tname = m.fields[i].rel

\* The round trip holds for every pair of snapshots that give their common
\* fields the same columns and keep the tables their foreign keys refer to.
C19_RoundTripSameColumns ==
    (auto.at = "back" /\ SameColumns(auto.A, auto.B) /\ TargetsKept(auto.A, auto.B)) =>
        auto.ok /\ Structure(Models(auto.mg.orm)) = Structure(auto.A)

\* ------------------------------------------------ Router.merge and .create
\* The router keeps a model class by its names and the names of its fields; the
\* differ reads field objects: each field name stands for a plain field on
\* the column of that name, and the class has no composite index.
Lift(m) ==
    SchemaModel(m.name, m.tname,
                [i \in 1..Len(InOrder(m.fields)) |->
                    Field(InOrder(m.fields)[i], "char", "", FALSE, FALSE, FALSE,
                          InOrder(m.fields)[i], "")],
                <<>>)

\* The migrate()/rollback() function that Router.compile writes from a piece
\* of generated code, as the Migrator call the function makes when the file
\* is read back and executed.
AsCall(code) ==
    CASE code.m = "create_model" ->
            Call("create_model", code.model.name, code.tname, FieldNames(code.model))
      [] code.m = "remove_model" -> Call("remove_model", code.tname, code.tname, {})
      [] code.m = "add_fields" ->
            Call("add_fields", code.tname, code.tname,
                 {code.fields[i].name : i \in 1..Len(code.fields)})
      [] code.m = "remove_fields" ->
            Call("remove_fields", code.tname, code.tname, Range(code.names))

\* The registry as the differ reads it.
LiftORM(orm) ==
    [models |-> [k \in DOMAIN orm.models |-> Lift(orm.models[k])],
     tables |-> [k \in DOMAIN orm.tables |-> Lift(orm.tables[k])]]

\* compile_migrations(migrator, models, reverse=) on the router's registry,
\* as the calls of the function Router.compile writes from the code.
Compiled(mg, models, reverse) ==
    LET code == compile_migrations([mg EXCEPT !.orm = LiftORM(@)],
                                   {Lift(m) : m \in models}, reverse)
    IN  [i \in 1..Len(code) |-> AsCall(code[i])]

\* self.migrator as a call reads it: the cached migrator, or a new one built
\* by replaying done (which raises when a done migration has no file).
SelfMigrator(r) ==
    IF cached[r] THEN [ok |-> TRUE, mg |-> migrator[r], reads |-> 0]
    ELSE Replay(files, NewMigrator, Done(db))

\* (mutant) clear() that deletes the history rows and leaves the files
Router_clear_KeepFiles(F) == F

\* Router.clear, the directory part: every migration file is unlinked.
Router_clear(F) == EmptyMap

\* BaseRouter.merge up to "if not migrate": the code that creates every model
\* of self.migrator's registry on a new Migrator; with none, merge logs
\* "Can't merge migrations" and returns.
Merge(r) ==
    /\ Begin(r, ApiCall("merge", Merged, TRUE, FALSE, TRUE))
    /\ LET b == SelfMigrator(r)
       IN  IF ~b.ok
           THEN /\ Raised(r, "migrator")
                /\ UNCHANGED <<migrator, cached>>
           ELSE /\ migrator' = [migrator EXCEPT ![r] = b.mg]
                /\ cached' = [cached EXCEPT ![r] = TRUE]
                /\ IF Compiled(NewMigrator, Models(b.mg.orm), FALSE) = <<>>
                   THEN /\ pc' = [pc EXCEPT ![r] = "idle"]
                        /\ out' = [out EXCEPT ![r] = [res |-> "ok", at |-> "cant"]]
                   ELSE /\ pc' = [pc EXCEPT ![r] = "merge_clear"]
                        /\ out' = [out EXCEPT ![r] = [res |-> "none", at |-> ""]]
    /\ cur' = [cur EXCEPT ![r] = One(Merged, TRUE, FALSE, TRUE)]
    /\ loc' = [loc EXCEPT ![r] = NoLoc]
    /\ UNCHANGED <<auto, files, db, lock, snap>>

\* merge, self.clear() and self.compile(name, migrate, rollback, 0): the
\* history rows are deleted (one statement, which may fail), the files are
\* unlinked and the merged migration is written: its migrate creates the
\* models of the registry, its rollback is the diff from the registry to no
\* model at all.
MergeCompile(r) ==
    /\ pc[r] = "merge_clear"
    /\ lock = 0
    /\ \E fail \in BOOLEAN :
          IF fail
          THEN /\ Raised(r, "clear")
               /\ UNCHANGED <<db, files, g>>
          ELSE /\ db' = [db EXCEPT !.history = <<>>]
               /\ g' = [g EXCEPT ![r].stmts = @ + 1]
               /\ files' = Put(Router_clear(files), Merged,
                               [migrate  |-> Compiled(NewMigrator,
                                                      Models(migrator[r].orm), FALSE),
                                rollback |-> Compiled(migrator[r], {}, FALSE)])
               /\ pc' = [pc EXCEPT ![r] = "merge_one"]
               /\ out' = out
    /\ UNCHANGED <<auto, lock, call, cur, loc, migrator, cached, snap, calls>>

\* (mutant) the merged migration run for real on the new Migrator
MergeRun_Real(d, mg, name) ==
    LET created == {mg.ops[i].table : i \in 1..Len(mg.ops)} \ DOMAIN d.tables
    IN  [d EXCEPT !.applied[name] = @ + 1,
                  !.tables = [t \in DOMAIN d.tables \cup created |->
                                 IF t \in created
                                 THEN (CHOOSE o \in Range(mg.ops) : o.table = t).col
                                 ELSE d.tables[t]]]

\* What run_one(name, migrator, fake=True, force=True) of merge does to the
\* database before the history row: the database is mocked while migrate
\* runs and the queue is not flushed.
MergeRun(d, mg, name) == d

\* merge, self.run_one(name, Migrator(self.database), fake=True, force=True):
\* the merged migration is read and called on a new Migrator (self.migrator is
\* left as it is), and its history row is written.
MergeRunOne(r) ==
    /\ pc[r] = "merge_one"
    /\ lock = 0
    /\ LET m == FakeMigrate(files, NewMigrator, cur[r].name)
       IN  IF ~m.ok
           THEN /\ Raised(r, "migrate")
                /\ g' = [g EXCEPT ![r].reads = @ + 1, ![r].ran = Append(@, cur[r].name)]
                /\ db' = db
           ELSE \E fail \in BOOLEAN :
                   IF fail
                   THEN /\ Raised(r, "force")
                        /\ g' = [g EXCEPT ![r].reads = @ + 1,
                                          ![r].ran = Append(@, cur[r].name)]
                        /\ db' = MergeRun(db, m.mg, cur[r].name)
                   ELSE /\ db' = [MergeRun(db, m.mg, cur[r].name) EXCEPT
                                     !.history = HistoryCreate(@, cur[r].name)]
                        /\ g' = [g EXCEPT ![r].reads = @ + 1, ![r].stmts = @ + 1,
                                          ![r].ran = Append(@, cur[r].name)]
                        /\ Returned(r)
    /\ UNCHANGED <<auto, files, lock, call, cur, loc, migrator, cached, snap, calls>>

\* One router whose migrations are run, rolled back and merged.
NextMerge ==
    \/ \E fake \in BOOLEAN : Run(1, None, fake)
    \/ Rollback(1)
    \/ Merge(1)
    \/ MergeCompile(1)
    \/ MergeRunOne(1)
    \/ GetMigrator(1)
    \/ RoFake(1)
    \/ RoForce(1)
    \/ RoBegin(1)
    \/ RoFlush(1)
    \/ RoHistory(1)
    \/ RoCommit(1)
    \/ RunNext(1)

SpecMerge == Init /\ [][NextMerge]_vars

\* merge returned after it wrote the merged migration.
MergeSucceeded ==
    call[1].kind = "merge" /\ pc[1] = "idle" /\ out[1] = [res |-> "ok", at |-> "end"]

\* C13: after merge succeeds the directory holds exactly the merged migration
\* (every file that was there before, applied or pending, is gone), done is
\* that one migration and diff is empty.
C13_MergeLeavesOne ==
    MergeSucceeded =>
        /\ DOMAIN files = {Merged}
        /\ Done(db) = <<Merged>>
        /\ Diff(Todo(files), Done(db)) = <<>>

\* A merge succeeded in a directory that held applied and pending migrations.
C13_Witness ==
    /\ MergeSucceeded
    /\ Len(g[1].pre.history) >= 2
    /\ DOMAIN g[1].pre.files \ Range(g[1].pre.history) # {}

\* C15: merge executes no schema-changing operation: from its start to its
\* end, however it ends, the tables of the database are those it found, no
\* queued operation was executed and no migration was applied.
C15_MergeRunsNothing ==
    call[1].kind = "merge" =>
        /\ db.tables = g[1].pre.tables
        /\ db.applied = g[1].pre.applied
        /\ g[1].execd = {}

\* A merge succeeded on a database that lacks a table the merged migration
\* creates (the migrations had been recorded by a fake run).
C15_Witness ==
    /\ MergeSucceeded
    /\ \E i \in 1..Len(files[Merged].migrate) :
          /\ files[Merged].migrate[i].m = "create_model"
          /\ files[Merged].migrate[i].tname \notin DOMAIN db.tables
    /\ db.history # g[1].pre.history

\* The structure of a registry: its tables with the names of their fields.
Struct(orm) == {<<m.tname, m.fields>> : m \in Models(orm)}

\* C14: the merged migration is equivalent to the migrations it replaces: its
\* upgrade replayed on an empty registry gives the structure that replaying
\* the migrations applied before the merge gives, and its downgrade is the
\* diff from that registry to the empty one.
C14_MergedIsEquivalent ==
    MergeSucceeded =>
        LET before == Replay(g[1].pre.files, NewMigrator, g[1].pre.history)
            after  == Replay(files, NewMigrator, <<Merged>>)
        IN  /\ before.ok /\ after.ok
            /\ Struct(after.mg.orm) = Struct(before.mg.orm)
            /\ files[Merged].rollback = Compiled(before.mg, {}, FALSE)

\* The same for a router that had not used its migrator before the merge.
C14_MergedIsEquivalentFresh ==
    (MergeSucceeded /\ ~g[1].pre.cached) =>
        LET before == Replay(g[1].pre.files, NewMigrator, g[1].pre.history)
            after  == Replay(files, NewMigrator, <<Merged>>)
        IN  /\ before.ok /\ after.ok
            /\ Struct(after.mg.orm) = Struct(before.mg.orm)
            /\ files[Merged].rollback = Compiled(before.mg, {}, FALSE)

\* ------------------------------------------------------------ Router.create
\* The lists of model classes create is given with auto= (the target schema);
\* in the last one two classes, A and C, declare the same table name.
Targets ==
    {{Model("A", "a", {"id"})},
     {Model("A", "a", {"id", "f"})},
     {Model("A", "a", {"id", "f"}), Model("B", "b", {"id"})},
     {Model("A", "a", {"id"}), Model("C", "a", {"id", "f"})}}

\* Router.compile with num=None: the new name is numbered len(self.todo) + 1
\* (and carries the suffix the files of the directory have).
NewName(F) == Len(Todo(F)) + 1

\* BaseRouter.create.  target is the list of model classes given with auto=,
\* {} when there is none (an empty stub is written).  With a target the
\* pending migrations are run on self.migrator with fake=True, the two diffs
\* are compiled (code[FALSE] is migrate, code[TRUE] is rollback, compiled
\* with reverse=True) and, unless the first is empty, written by
\* Router.compile; the file of the name compile computes is overwritten when
\* there is one.
Create(r, target) ==
    /\ Begin(r, ApiCall("create", NewName(files), TRUE, FALSE, FALSE))
    /\ cur' = [cur EXCEPT ![r] = NoOne]
    /\ loc' = [loc EXCEPT ![r] = NoLoc]
    /\ auto' = [NoAuto EXCEPT !.B = target, !.at = "create"]
    /\ IF target = {}
       THEN /\ files' = Put(files, NewName(files), [migrate |-> <<>>, rollback |-> <<>>])
            /\ pc' = [pc EXCEPT ![r] = "idle"]
            /\ out' = [out EXCEPT ![r] = [res |-> "ok", at |-> "end"]]
            /\ UNCHANGED <<migrator, cached>>
       ELSE \E b \in {SelfMigrator(r)} :
            \E p \in {IF b.ok THEN Replay(files, b.mg, Diff(Todo(files), Done(db)))
                       ELSE b} :
            \E code \in {[reverse \in BOOLEAN |-> Compiled(p.mg, target, reverse)]} :
                IF ~b.ok
                THEN /\ Raised(r, "migrator")
                     /\ UNCHANGED <<files, migrator, cached>>
                ELSE /\ migrator' = [migrator EXCEPT ![r] = p.mg]
                     /\ cached' = [cached EXCEPT ![r] = TRUE]
                     /\ IF ~p.ok
                        THEN /\ Raised(r, "migrate")
                             /\ files' = files
                        ELSE IF diff_many_raises({Lift(m) : m \in target},
                                                 Models(LiftORM(p.mg.orm)), FALSE)
                        THEN /\ Raised(r, "diff")
                             /\ files' = files
                        ELSE /\ pc' = [pc EXCEPT ![r] = "idle"]
                             /\ IF code[FALSE] = <<>>
                                THEN /\ out' = [out EXCEPT ![r] =
                                                   [res |-> "ok", at |-> "nochange"]]
                                     /\ files' = files
                                ELSE /\ out' = [out EXCEPT ![r] =
                                                   [res |-> "ok", at |-> "end"]]
                                     /\ files' = Put(files, NewName(files),
                                                     [migrate  |-> code[FALSE],
                                                      rollback |-> code[TRUE]])
    /\ UNCHANGED <<db, lock, snap>>

\* A directory that holds any of the three migration files.
InitCreate ==
    /\ \E D \in SUBSET DOMAIN InitFiles : files = [n \in D |-> InitFiles[n]]
    /\ db = InitDB
    /\ lock = 0
    /\ pc = [r \in Routers |-> "idle"]
    /\ call = [r \in Routers |-> ApiCall("", None, FALSE, FALSE, FALSE)]
    /\ cur = [r \in Routers |-> NoOne]
    /\ loc = [r \in Routers |-> NoLoc]
    /\ migrator = [r \in Routers |-> NewMigrator]
    /\ cached = [r \in Routers |-> FALSE]
    /\ snap = [r \in Routers |-> InitDB]
    /\ out = [r \in Routers |-> [res |-> "none", at |-> ""]]
    /\ g = [r \in Routers |-> NoBook]
    /\ calls = 0
    /\ auto = NoAuto

\* One router that creates migrations, runs them and rolls them back.
NextCreate ==
    \/ \E target \in Targets \cup {{}} : Create(1, target)
    \/ Run(1, None, FALSE)
    \/ Rollback(1)
    \/ GetMigrator(1)
    \/ RoBegin(1)
    \/ RoFlush(1)
    \/ RoHistory(1)
    \/ RoCommit(1)
    \/ RunNext(1)

SpecCreate == InitCreate /\ [][NextCreate]_vars

\* create returned after it wrote a file.
Created == call[1].kind = "create" /\ pc[1] = "idle" /\ out[1] = [res |-> "ok", at |-> "end"]

\* C16: create(name) without a target adds exactly one file: todo is the
\* previous todo followed by the new name and every file that was there is
\* unchanged, whatever names the directory holds.
C16_CreateAppends ==
    (Created /\ auto.B = {}) =>
        /\ Todo(files) = Append(Todo(g[1].pre.files), call[1].name)
        /\ \A n \in DOMAIN g[1].pre.files : files[n] = g[1].pre.files[n]

\* The files of the directory are numbered 1..n without a gap.
Contiguous(F) == DOMAIN F = 1..Cardinality(DOMAIN F)

\* The same for a directory whose files are numbered without a gap.
C16_CreateAppendsContiguous ==
    (Created /\ auto.B = {} /\ Contiguous(g[1].pre.files)) =>
        /\ Todo(files) = Append(Todo(g[1].pre.files), call[1].name)
        /\ \A n \in DOMAIN g[1].pre.files : files[n] = g[1].pre.files[n]

\* The registry the diff of create is to be taken against: every applied
\* migration, then every pending one, replayed once on a new Migrator.
Baseline ==
    Replay(g[1].pre.files, NewMigrator,
           g[1].pre.history \o Diff(Todo(g[1].pre.files), g[1].pre.history))

\* What create with a target is to leave: the file of the two diffs against
\* the baseline, or the directory as it was when the upgrade diff is empty.
CreatedFromBaseline ==
    IF Compiled(Baseline.mg, auto.B, FALSE) = <<>>
    THEN out[1].at = "nochange" /\ files = g[1].pre.files
    ELSE /\ out[1].at = "end"
         /\ files[call[1].name] = [migrate  |-> Compiled(Baseline.mg, auto.B, FALSE),
                                   rollback |-> Compiled(Baseline.mg, auto.B, TRUE)]

\* C17: create(name, target) diffs the target against the registry of the
\* applied and then the pending migrations, each replayed once: the upgrade
\* is diff(target, registry), the downgrade diff(registry, target), and no
\* file is written when the upgrade diff is empty.
C17_CreateDiffsBaseline ==
    (call[1].kind = "create" /\ auto.B # {} /\ pc[1] = "idle" /\ out[1].res = "ok") =>
        CreatedFromBaseline

\* The same for a router that had not used its migrator before the call.
C17_CreateDiffsBaselineFresh ==
    (call[1].kind = "create" /\ auto.B # {} /\ pc[1] = "idle" /\ out[1].res = "ok"
     /\ ~g[1].pre.cached) =>
        CreatedFromBaseline

\* The version of table t in a set of models ({} when there is none).
Versions(S, t) == {m \in S : m.tname = t}

\* The number of calls of method m in a sequence of calls.
Calls(ops, m) == Cardinality({i \in 1..Len(ops) : ops[i].m = m})

\* The field names a call of code carries.
Carried(c) ==
    IF c.m = "remove_fields" THEN Range(c.names)
    ELSE {c.fields[i].name : i \in 1..Len(c.fields)}

IndexOps(ops) == SelectSeq(ops, LAMBDA c : c.m \in {"add_index", "drop_index"})

\* Model m is model s with field n, neither indexed nor unique in s, made
\* unique, and with nothing else changed.
MadeUnique(m, s, n) ==
    /\ HasField(s, n) /\ HasField(m, n)
    /\ ~GetField(s, n).unique /\ ~GetField(s, n).index
    /\ GetField(m, n) = [GetField(s, n) EXCEPT !.unique = TRUE]
    /\ Len(m.fields) = Len(s.fields)
    /\ \A i \in 1..Len(m.fields) : m.fields[i].name # n => m.fields[i] = s.fields[i]
    /\ m.indexes = s.indexes

Refs(model) ==
    {model.fields[i].rel : i \in {k \in 1..Len(model.fields) : IsFK(model.fields[k])}}

\* The create_model calls of a piece of code are in topological order: each
\* table referred to was created by an earlier call or is in the source.
CreatesOrdered(code, source) ==
    \A i \in 1..Len(code) :
        code[i].m = "create_model" =>
            \A t \in Refs(code[i].model) :
                \/ \E j \in 1..(i - 1) : code[j].m = "create_model" /\ code[j].tname = t
                \/ \E s \in source : s.tname = t

\* C23 -- in every multi-table diff, forward and reverse, a table is created
\* only after every table its foreign keys refer to has been created by an
\* earlier operation (or is in the source).
C23_CreatesInTopologicalOrder ==
    auto.at # "A" =>
        /\ CreatesOrdered(auto.migrate, auto.A)
        /\ CreatesOrdered(auto.rollback, auto.B)

\* The same for forward diffs only.
C23_ForwardCreatesOrdered ==
    auto.at # "A" => CreatesOrdered(auto.migrate, auto.A)

\* The remove_model calls of a piece of code are in reverse topological
\* order: a table of the source that refers to another is removed before it.
DropsOrdered(code, source) ==
    \A i \in 1..Len(code) : \A j \in 1..Len(code) :
        (/\ code[i].m = "remove_model" /\ code[j].m = "remove_model"
         /\ \E s \in Versions(source, code[i].tname) : code[j].tname \in Refs(s))
        => i < j

\* C24 -- in every multi-table diff, forward and reverse, a table that refers
\* to another through a foreign key is dropped before the table it refers to.
C24_DropsInReverseTopologicalOrder ==
    auto.at # "A" =>
        /\ DropsOrdered(auto.migrate, auto.A)
        /\ DropsOrdered(auto.rollback, auto.B)

\* The same for reverse diffs only.
C24_ReverseDropsOrdered ==
    auto.at # "A" => DropsOrdered(auto.rollback, auto.B)

\* The index calls of a sequence of calls that are about the fields cols.
IndexOpsOn(ops, cols) == SelectSeq(IndexOps(ops), LAMBDA c : c.names = cols)

\* The unique flags of the composite indexes on cols that meta.indexes holds.
CompositeOn(model, cols) ==
    {model.indexes[i].unique : i \in {k \in 1..Len(model.indexes) : model.indexes[k].cols = cols}}

\* C25 -- composite index diff: a multi-column index that only the target has
\* yields exactly one add_index call; an index on the same columns whose
\* uniqueness differs between source and target yields exactly a drop_index
\* followed by an add_index with the target's uniqueness.
C25_CompositeIndexDiff ==
    auto.at # "A" =>
        \A d \in {<<auto.migrate, auto.B, auto.A>>, <<auto.rollback, auto.A, auto.B>>} :
            \A m \in Versions(d[2], "a") : \A s \in Versions(d[3], "a") :
                LET cols == <<"f", "h">>
                    ops  == IndexOpsOn(TableDiff(d[1], "a"), cols)
                IN  \A u \in CompositeOn(m, cols) :
                        /\ CompositeOn(s, cols) = {} =>
                              ops = <<[m |-> "add_index", tname |-> "a", names |-> cols,
                                       unique |-> u]>>
                        /\ CompositeOn(s, cols) = {~u} =>
                              ops = <<[m |-> "drop_index", tname |-> "a", names |-> cols],
                                      [m |-> "add_index", tname |-> "a", names |-> cols,
                                       unique |-> u]>>

\* The target made the composite index of the source unique, and the source
\* of another diff (the reverse one) lacks the index the target has.
C25_Witness ==
    /\ auto.at = "B"
    /\ \E m \in Versions(auto.B, "a") : \E s \in Versions(auto.A, "a") :
          /\ CompositeOn(m, <<"f", "h">>) = {TRUE}
          /\ CompositeOn(s, <<"f", "h">>) = {FALSE}
    /\ Len(IndexOpsOn(auto.migrate, <<"f", "h">>)) = 2
    /\ IndexOpsOn(auto.rollback, <<"f", "h">>)[1].m = "drop_index"

\* Two distinct model classes of a list declare one table name.
Collides(S) == \E m \in S : \E n \in S : m # n /\ m.tname = n.tname

\* C26 -- when two distinct declared tables among the schemas being diffed
\* share one table name, the diff fails with an error before any operation is
\* generated and no migration file is written.
C26_CollisionRaises ==
    (call[1].kind = "create" /\ pc[1] = "idle" /\ Collides(auto.B)) =>
        /\ out[1].res = "raised"
        /\ files = g[1].pre.files

\* The kind of operation a Migrator call of the migration files queues.
OpKind(m) ==
    CASE m = "create_model"  -> "create_table"
      [] m = "remove_model"  -> "drop_table"
      [] m = "add_fields"    -> "add_column"
      [] m = "remove_fields" -> "drop_column"
      [] m = "run"           -> "callback"
      [] OTHER -> m

\* The function of the migration file that the run_one in progress called.
Called(r) ==
    IF cur[r].downgrade THEN files[cur[r].name].rollback ELSE files[cur[r].name].migrate

\* s is the beginning of t.
Prefix(s, t) == Len(s) <= Len(t) /\ s = SubSeq(t, 1, Len(s))

\* s is t with some elements left out.
RECURSIVE Within(_, _)
Within(s, t) ==
    IF s = <<>> THEN TRUE
    ELSE IF t = <<>> THEN FALSE
    ELSE IF Head(s) = Head(t) THEN Within(Tail(s), Tail(t))
    ELSE Within(s, Tail(t))

\* C27 -- the flush runs the queued operations in the order they were
\* queued, typed operations, raw SQL and callbacks as the migration declared
\* them, and stops at the first operation that fails: what a flush has run is
\* always the beginning of the queue, the operations the migration queued
\* stand at the end of the queue in the order of the calls that queued them,
\* and after a failed flush nothing behind the failed operation has been run.
C27_FlushInQueueOrder ==
    /\ pc[1] = "flush" =>
          LET q   == migrator[1].ops
              old == g[1].ro.ops
              new == SubSeq(q, Len(old) + 1, Len(q))
          IN  /\ g[1].flushed = SubSeq(q, 1, loc[1].k - 1)
              /\ Prefix(old, q)
              /\ \A i \in 1..Len(new) : new[i].mig = cur[1].name
              /\ Within([i \in 1..Len(new) |-> new[i].kind],
                        [i \in 1..Len(Called(1)) |-> OpKind(Called(1)[i].m)])
    /\ (pc[1] = "idle" /\ out[1] = [res |-> "raised", at |-> "flush"]) =>
          /\ Prefix(g[1].flushed, migrator[1].ops)
          /\ Len(g[1].flushed) < Len(migrator[1].ops)

\* The flush of a migration that queued a typed operation and then a callback
\* ran the first and failed in the second.
C27_Witness ==
    /\ pc[1] = "idle" /\ out[1] = [res |-> "raised", at |-> "flush"]
    /\ Len(g[1].flushed) = 1
    /\ g[1].flushed[1].kind = "create_table"
    /\ migrator[1].ops[2].kind = "callback"


\* A run_one of router r has ended at one of the places in at: "flush" (an
\* operation of the flush raised), "history" and "commit" (the flush was
\* complete, a later statement raised), "end" (it returned).
RunOneEndedAt(r, at) ==
    /\ pc[r] = "idle"
    /\ g[r].ran # <<>>
    /\ out[r].res # "none"
    /\ out[r].at \in at

\* C28 -- after a flush the queue of pending operations is empty, whether
\* every operation succeeded or one of them failed, and it is empty after
\* every fake run: whenever a run_one has ended after its flush began or after
\* its fake call returned, the queue of its Migrator is empty.
C28_QueueClearedAfterFlush ==
    \A r \in Routers :
        RunOneEndedAt(r, {"flush", "history", "commit", "end"}) =>
            migrator[r].ops = <<>>

\* The part of C28 that does not depend on a failing operation: the queue is
\* empty after a flush that ran every operation and after a fake run that
\* returned.
C28_QueueClearedAfterCompleteFlush ==
    \A r \in Routers :
        RunOneEndedAt(r, {"history", "commit", "end"}) => migrator[r].ops = <<>>

\* ------------------------------------------------------------------ renames
\* The number of renames made on one Migrator.
MaxRenames == 3

\* A rename the migration code calls: rename_table(ref, new) or
\* rename_field(ref, old, new); ref is a model name or a table name.
Rename(m, ref, old, new) == [m |-> m, tname |-> ref, old |-> old, new |-> new]

\* (mutant) rename_table registering the class under the new table name and
\* leaving the old entries in place
Migrator_rename_table_NoRemove(mg, c, mig) ==
    IF ~HasModel(mg.orm, c.tname) THEN Ret(mg, FALSE)
    ELSE LET model == GetModel(mg.orm, c.tname)
         IN  Ret([orm |-> ORM_add(mg.orm, [model EXCEPT !.tname = c.new]),
                  ops |-> Append(mg.ops, Op("rename_table", model.tname, c.new, mig))],
                 TRUE)

\* Migrator.rename_table: the class is removed from the registry, gets the new
\* table name and is added again; a rename_table operation is queued.  A
\* KeyError of orm.remove leaves what it deleted before deleted.
Migrator_rename_table(mg, c, mig) ==
    IF ~HasModel(mg.orm, c.tname) THEN Ret(mg, FALSE)
    ELSE LET model   == GetModel(mg.orm, c.tname)
             removed == ORM_remove(mg.orm, model)
             renamed == [model EXCEPT !.tname = c.new]
         IN  IF ~removed.ok THEN Ret([mg EXCEPT !.orm = removed.orm], FALSE)
             ELSE Ret([orm |-> ORM_add(Mutate(removed.orm, model, renamed), renamed),
                       ops |-> Append(mg.ops,
                                      Op("rename_table", model.tname, c.new, mig))],
                      TRUE)

\* Migrator.rename_field: meta.fields[old_name] (KeyError when there is none);
\* the field is deleted from the class (__del_field__: meta.remove_field),
\* gets the new name as its name and as its column, with "_id" appended for a
\* foreign key, and is added again (meta.add_field replaces a field of that
\* name; the field object keeps its place in meta.sorted_fields).  The queued
\* rename_column goes from the old column of a foreign key, and from the old
\* field name of any other field, to the new column.
Migrator_rename_field(mg, c, mig) ==
    IF ~HasModel(mg.orm, c.tname) THEN Ret(mg, FALSE)
    ELSE LET model == GetModel(mg.orm, c.tname)
         IN  IF ~HasField(model, c.old) THEN Ret(mg, FALSE)
             ELSE LET field    == GetField(model, c.old)
                      old_name == IF IsFK(field) THEN field.column_name ELSE c.old
                      renamed  == [field EXCEPT
                                      !.name = c.new,
                                      !.column_name = IF IsFK(field) THEN c.new \o "_id"
                                                      ELSE c.new]
                      fields   == [i \in 1..Len(model.fields) |->
                                      IF model.fields[i] = field THEN renamed
                                      ELSE model.fields[i]]
                      added    == [model EXCEPT !.fields =
                                      SelectSeq(fields,
                                                LAMBDA f : f = renamed \/ f.name # c.new)]
                  IN  Ret([orm |-> Mutate(mg.orm, model, added),
                           ops |-> Append(mg.ops,
                                          Op("rename_column", model.tname,
                                             <<old_name, renamed.column_name>>, mig))],
                          TRUE)

\* The declarations of model A (table a) the renames start from: a CharField f
\* whose column is derived ("f") or explicit ("c"), a foreign key h to table b
\* whose column is derived ("h_id") or explicit ("d"), or both fields.
RenameDeclared ==
    LET fs == {Field("f", "char", "", FALSE, FALSE, FALSE, col, "") : col \in {"f", "c"}}
        hs == {Field("h", "fk", "b", FALSE, TRUE, FALSE, col, "") : col \in {"h_id", "d"}}
    IN  {SchemaModel("A", "a", fl, <<>>) :
            fl \in {<<f>> : f \in fs} \cup {<<h>> : h \in hs}
                   \cup {<<fh[1], fh[2]>> : fh \in fs \X hs}}

\* What is kept of a rename that was called: the call, whether it returned,
\* the class it resolved to and the field as it was before ("" and None when
\* there was none).
Renamed(c, ok, cls, field) == [c |-> c, ok |-> ok, cls |-> cls, field |-> field]

NoRename == Renamed(Rename("none", "", "", ""), FALSE, "", None)

\* A Migrator whose registry holds models A and B; no rename was called.
InitRename ==
    /\ RouterInit
    /\ \E a \in RenameDeclared :
          auto = [mg |-> [orm |-> Registered(NewORM, <<BDeclared, a>>), ops |-> <<>>],
                  n |-> 0, prev |-> NoRename, last |-> NoRename]

\* The migration code calls c on the Migrator.
RenameCalled(c, r) ==
    LET cls   == IF HasModel(auto.mg.orm, c.tname)
                 THEN GetModel(auto.mg.orm, c.tname).name ELSE ""
        field == IF cls # "" /\ c.m = "rename_field"
                    /\ HasField(GetModel(auto.mg.orm, c.tname), c.old)
                 THEN GetField(GetModel(auto.mg.orm, c.tname), c.old) ELSE None
    IN  /\ auto.n < MaxRenames
        /\ auto' = [mg |-> r.mg, n |-> auto.n + 1, prev |-> auto.last,
                    last |-> Renamed(c, r.ok, cls, field)]
        /\ UNCHANGED <<files, db, lock, pc, call, cur, loc, migrator, cached, snap,
                       out, g, calls>>

RenameTable ==
    \E ref \in {"A", "B", "a", "b", "c"}, new \in {"a", "b", "c"} :
        \E c \in {Rename("rename_table", ref, "", new)} :
            RenameCalled(c, Migrator_rename_table(auto.mg, c, None))

RenameField ==
    \E ref \in {"A", "a", "c"}, old \in {"f", "h", "g"}, new \in {"f", "h", "g"} :
        \E c \in {Rename("rename_field", ref, old, new)} :
            RenameCalled(c, Migrator_rename_field(auto.mg, c, None))

NextRename == RenameTable \/ RenameField

SpecRename == InitRename /\ [][NextRename]_vars

\* The field collections and the two registry maps hold no key that is not
\* the current name of what it holds: every class stands under its own name
\* and its own table name, the class under a table name is the class the
\* registry has under its name, and no two fields of a class share a name.
NoStaleKey(orm) ==
    /\ \A k \in DOMAIN orm.models : orm.models[k].name = k
    /\ \A k \in DOMAIN orm.tables :
          /\ orm.tables[k].tname = k
          /\ orm.tables[k].name \in DOMAIN orm.models
          /\ orm.models[orm.tables[k].name] = orm.tables[k]
    /\ \A k \in DOMAIN orm.models :
          LET fs == orm.models[k].fields
          IN  \A i \in 1..Len(fs) : \A j \in 1..Len(fs) :
                 fs[i].name = fs[j].name => i = j

\* C29 -- after rename_table(T, new) the registry resolves T under the new
\* table name and no longer under the old one; after rename_field(T, old, new)
\* the fields of T hold new and no longer old; and after any sequence of
\* renames no stale key is left in either map of the registry.
C29_RenamesLeaveNoStaleKey ==
    LET orm == auto.mg.orm
        c   == auto.last.c
        T   == auto.last.cls
    IN  /\ NoStaleKey(orm)
        /\ (auto.last.ok /\ c.m = "rename_table") =>
              /\ c.new \in DOMAIN orm.tables
              /\ orm.tables[c.new].name = T
              /\ orm.models[T].tname = c.new
              /\ \A k \in DOMAIN orm.tables \ {c.new} : orm.tables[k].name # T
              /\ (Last(auto.mg.ops).table # c.new =>
                    Last(auto.mg.ops).table \notin DOMAIN orm.tables)
        /\ (auto.last.ok /\ c.m = "rename_field" /\ c.old # c.new) =>
              /\ HasField(orm.models[T], c.new)
              /\ ~HasField(orm.models[T], c.old)
              /\ \A k \in DOMAIN orm.tables :
                    orm.tables[k].name = T =>
                        HasField(orm.tables[k], c.new) /\ ~HasField(orm.tables[k], c.old)

\* A table was renamed and then a field of it: the class stands under its new
\* table name only and holds the new field name only.
C29_Witness ==
    /\ auto.n = 2
    /\ auto.prev.ok /\ auto.prev.c = Rename("rename_table", "A", "", "c")
    /\ auto.last.ok /\ auto.last.c = Rename("rename_field", "c", "h", "g")
    /\ DOMAIN auto.mg.orm.tables = {"b", "c"}
    /\ HasField(auto.mg.orm.tables["c"], "g")

\* The last two calls were rename_field(T, a, b) and rename_field(T, b, a) on
\* one class, and both returned.
RoundTrip ==
    /\ auto.prev.ok /\ auto.prev.c.m = "rename_field"
    /\ auto.last.ok /\ auto.last.c.m = "rename_field"
    /\ auto.prev.cls = auto.last.cls
    /\ auto.prev.c.old # auto.prev.c.new
    /\ auto.last.c.old = auto.prev.c.new
    /\ auto.last.c.new = auto.prev.c.old

\* After the round trip the class has the field under the name it had, on the
\* column it had, and the second rename_column is the first one with its two
\* columns swapped.
Restored ==
    LET model == auto.mg.orm.models[auto.last.cls]
        was   == auto.prev.field
        ops   == auto.mg.ops
        n     == Len(ops)
    IN  /\ HasField(model, was.name)
        /\ GetField(model, was.name).column_name = was.column_name
        /\ ops[n].kind = "rename_column" /\ ops[n - 1].kind = "rename_column"
        /\ ops[n].table = ops[n - 1].table
        /\ ops[n].col = <<ops[n - 1].col[2], ops[n - 1].col[1]>>

\* The column of the field is the one peewee derives from its name.
DerivedColumn(f) == f.column_name = IF IsFK(f) THEN f.name \o "_id" ELSE f.name

\* C30 -- rename_field round trip: for any field of a table, a foreign key or
\* not, with a derived or an explicit column name, rename_field(T, a, b)
\* followed by rename_field(T, b, a) restores the name of the field and the
\* name of its column, and the rename operation queued by the second call has
\* the column arguments of the first one swapped.
C30_RenameFieldRoundTrip == RoundTrip => Restored

\* The part of C30 that holds: the round trip of a field whose column name is
\* the derived one.
C30_RenameFieldRoundTripDerived ==
    (RoundTrip /\ DerivedColumn(auto.prev.field)) => Restored

\* ------------------------------------------ Migrator methods called directly
\* The number of calls made on one Migrator.
MaxMutations == 2

\* Migrator.add_default: meta.fields[name] (KeyError when there is none), the
\* default is set on the field and an apply_default operation is queued.
Migrator_add_default(mg, c, mig) ==
    IF ~HasModel(mg.orm, c.tname) THEN Ret(mg, FALSE)
    ELSE LET model == GetModel(mg.orm, c.tname)
             name  == c.names[1]
         IN  IF ~HasField(model, name) THEN Ret(mg, FALSE)
             ELSE Ret([orm |-> Mutate(mg.orm, model,
                                      [model EXCEPT !.fields =
                                          [i \in 1..Len(@) |->
                                              IF @[i].name = name
                                              THEN [@[i] EXCEPT !.default = c.default]
                                              ELSE @[i]]]),
                       ops |-> Append(mg.ops, Op("apply_default", model.tname, name, mig))],
                      TRUE)

\* One call of a migration function on the migrator.
MutatorExec(mg, c, mig) ==
    CASE c.m = "rename_field" -> Migrator_rename_field(mg, c, mig)
      [] c.m = "rename_table" -> Migrator_rename_table(mg, c, mig)
      [] c.m = "add_default"  -> Migrator_add_default(mg, c, mig)
      [] OTHER                -> Exec(mg, c, mig)

\* The declarations of model A (table a) the calls start from: a CharField f,
\* unique or not, on column "f" or "c", and a foreign key h to table b, unique
\* or not.
MutatorDeclared ==
    {SchemaModel("A", "a", <<f, h>>, <<>>) :
        f \in {Field("f", "char", "", FALSE, FALSE, u, col, "") :
                  u \in BOOLEAN, col \in {"f", "c"}},
        h \in {Field("h", "fk", "b", FALSE, TRUE, u, "h_id", "") : u \in BOOLEAN}}

\* The calls a migration function makes: on table a or on a table x the
\* registry does not have, naming the fields f and h and a field z the class
\* does not have.
Offered ==
    LET tables == {"a", "x"}
        cols   == {<<"f">>, <<"f", "h">>, <<"h", "f">>, <<"f", "z">>}
        names  == {<<"f">>, <<"f", "z">>}
    IN  {[m |-> "add_index", tname |-> t, names |-> cs, unique |-> u] :
            t \in tables, cs \in cols, u \in BOOLEAN}
        \cup {[m |-> "drop_index", tname |-> t, names |-> cs] : t \in tables, cs \in cols}
        \cup {[m |-> "remove_fields", tname |-> t, names |-> ns] :
                 t \in tables, ns \in names}
        \cup {Rename("rename_field", t, old, "g") : t \in tables, old \in {"f", "z"}}
        \cup {[m |-> k, tname |-> t, names |-> ns] :
                 k \in {"add_not_null", "drop_not_null"}, t \in tables, ns \in names}
        \cup {[m |-> "add_default", tname |-> t, names |-> <<n>>, default |-> "0"] :
                 t \in tables, n \in {"f", "z"}}
        \cup {[m |-> "change_fields", tname |-> "a", fields |-> <<fl>>] :
                 fl \in {Field("f", "char", "", FALSE, FALSE, u, "f", "") : u \in BOOLEAN}
                        \cup {Field("h", "fk", "b", FALSE, TRUE, u, "h_id", "") :
                                 u \in BOOLEAN}}

\* What is kept of a call: the call, whether it returned, and the Migrator as
\* it was before the call.
Mutation(c, ok, mg) == [c |-> c, ok |-> ok, mg |-> mg]

NoMutation == Mutation([m |-> "none", tname |-> ""], FALSE, NewMigrator)

\* A Migrator whose registry holds models A and B; nothing was called.
InitMutator ==
    /\ RouterInit
    /\ \E a \in MutatorDeclared :
          auto = [mg |-> [orm |-> Registered(NewORM, <<BDeclared, a>>), ops |-> <<>>],
                  n |-> 0, prev |-> NoMutation, last |-> NoMutation]

\* The migration function calls a Migrator method.
MutatorCalled ==
    /\ auto.n < MaxMutations
    /\ \E c \in Offered :
          \E r \in {MutatorExec(auto.mg, c, None)} :
              auto' = [mg |-> r.mg, n |-> auto.n + 1, prev |-> auto.last,
                       last |-> Mutation(c, r.ok, auto.mg)]
    /\ UNCHANGED <<files, db, lock, pc, call, cur, loc, migrator, cached, snap,
                   out, g, calls>>

NextMutator == MutatorCalled

SpecMutator == InitMutator /\ [][NextMutator]_vars

\* The last two calls were add_index(T, cols) and drop_index(T, cols') on the
\* fields of one set, and both returned.
AddedThenDropped ==
    /\ auto.prev.ok /\ auto.prev.c.m = "add_index"
    /\ auto.last.ok /\ auto.last.c.m = "drop_index"
    /\ auto.prev.c.tname = auto.last.c.tname
    /\ Len(auto.prev.c.names) = Len(auto.last.c.names)
    /\ Range(auto.prev.c.names) = Range(auto.last.c.names)

\* C31 -- the identity of an index for removal is the set of its columns:
\* drop_index(T, cols) removes from the index list of T the index add_index
\* made on the same set of columns, in whatever order the columns are given,
\* so that after add_index and then drop_index on one column set the index
\* list is what it was before.
C31_DropIndexByColumnSet ==
    AddedThenDropped =>
        GetModel(auto.mg.orm, auto.last.c.tname).indexes
            = GetModel(auto.prev.mg.orm, auto.last.c.tname).indexes

\* The part of C31 that holds: drop_index with the columns in the order
\* add_index was given them leaves no index of these columns in the list.
C31_DropIndexSameOrder ==
    (AddedThenDropped /\ auto.prev.c.names = auto.last.c.names) =>
        LET after  == GetModel(auto.mg.orm, auto.last.c.tname).indexes
            before == GetModel(auto.prev.mg.orm, auto.last.c.tname).indexes
        IN  after = SelectSeq(before, LAMBDA e : e.cols # auto.last.c.names)

\* Every operation the running flush of router r has executed was queued by
\* the function the running run_one called (it stands behind the operations
\* the queue held when the run_one was entered) and by the migration that is
\* running.
FlushedOwnOps(r) ==
    /\ g[r].flushed # <<>> => g[r].ro.ops = <<>>
    /\ \A i \in 1..Len(g[r].flushed) : g[r].flushed[i].mig = cur[r].name

\* C32 -- a queued operation is pending and then executed (real run) or
\* discarded (fake run), and nothing else: over any sequence of run_one calls
\* on one Migrator, a retry after a failed real run included, no operation is
\* executed more than once and no operation queued by one migration is
\* executed during the flush of a later one.  An operation that a flush
\* executes was queued by the run_one that flushes.
C32_OperationLifecycle ==
    \A r \in Routers : pc[r] = "flush" => FlushedOwnOps(r)

\* The part of C32 that holds: a flush that begins on a queue no earlier
\* run_one left operations in executes operations of its own migration only.
C32_OperationLifecycleCleanQueue ==
    \A r \in Routers :
        (pc[r] = "flush" /\ g[r].ro.ops = <<>>) => FlushedOwnOps(r)

\* The last call was change_fields(T, f=new), it returned, and the unique
\* flag of new is not the one the field had.
UniqueChanged ==
    /\ auto.last.ok /\ auto.last.c.m = "change_fields"
    /\ LET new == auto.last.c.fields[1]
           T   == GetModel(auto.last.mg.orm, auto.last.c.tname)
       IN  HasField(T, new.name) /\ GetField(T, new.name).unique # new.unique

\* The operations the last call queued.
Queued == SubSeq(auto.mg.ops, Len(auto.last.mg.ops) + 1, Len(auto.mg.ops))

\* One index operation was queued, an add-index when the field is unique now
\* and a drop-index when it is not, and the index list of the class holds the
\* unique index of the one column of the field exactly when the field is
\* unique.
IndexFollowsUnique ==
    LET new == auto.last.c.fields[1]
        T   == GetModel(auto.mg.orm, auto.last.c.tname)
        ix  == SelectSeq(Queued, LAMBDA o : o.kind \in {"add_index", "drop_index"})
    IN  /\ Len(ix) = 1
        /\ ix[1].kind = IF new.unique THEN "add_index" ELSE "drop_index"
        /\ new.unique <=>
              \E i \in 1..Len(T.indexes) :
                  T.indexes[i] = MetaIndex(<<new.column_name>>, TRUE)

\* C33 -- after change_fields(T, f=new) where the unique flag of new differs
\* from the old field's, for every kind of field, foreign keys included:
\* exactly one index operation for the column of f is queued (add-index if f
\* is unique now, drop-index if it no longer is) and the index list of T holds
\* the single-column unique index of f's column if and only if f is unique.
C33_ChangeFieldsUnique == UniqueChanged => IndexFollowsUnique

\* The part of C33 that holds: fields that are not foreign keys.
C33_ChangeFieldsUniqueNotFK ==
    (UniqueChanged /\ ~IsFK(auto.last.c.fields[1])) => IndexFollowsUnique

\* The columns of the fields of model T that names lists, in that order.
ColumnsOf(T, names) ==
    LET found == SelectSeq(names, LAMBDA n : HasField(T, n))
    IN  [i \in 1..Len(found) |-> GetField(T, found[i]).column_name]

\* The drop-index operations the last call queued name their index as the
\* add-index operation on the same table and columns names the one it makes,
\* make_index_name(table, columns): the columns are those of the fields named
\* for drop_index, and the column of the field for remove_fields and
\* change_fields.
DropsNamed(kinds) ==
    (auto.last.ok /\ auto.last.c.m \in kinds) =>
        LET c     == auto.last.c
            T     == GetModel(auto.last.mg.orm, c.tname)
            drops == SelectSeq(Queued, LAMBDA o : o.kind = "drop_index")
        IN  \A i \in 1..Len(drops) :
               /\ drops[i].table = T.tname
               /\ CASE c.m = "drop_index" ->
                          drops[i].col = make_index_name(T.tname, ColumnsOf(T, c.names))
                    [] c.m = "remove_fields" ->
                          \E n \in Range(c.names) :
                              /\ HasField(T, n)
                              /\ drops[i].col
                                   = make_index_name(T.tname, ColumnsOf(T, <<n>>))
                    [] c.m = "change_fields" ->
                          drops[i].col
                            = make_index_name(T.tname, <<c.fields[1].column_name>>)

\* C34 -- every drop-index operation the Migrator queues, from drop_index,
\* from remove_fields on a unique field or from change_fields dropping
\* uniqueness, names the index by the name generated from (table, columns),
\* the name the matching add-index operation creates.
C34_DropIndexNames == DropsNamed({"drop_index", "remove_fields", "change_fields"})

\* The part of C34 that holds: drop_index and remove_fields.
C34_DropIndexNamesButChange == DropsNamed({"drop_index", "remove_fields"})

\* remove_fields dropped the index of a unique field.
C34_RemoveFieldsDropped ==
    /\ auto.last.ok /\ auto.last.c.m = "remove_fields"
    /\ \E i \in 1..Len(Queued) : Queued[i].kind = "drop_index"

\* The field names call c gives.
NamesGiven(c) == IF c.m = "rename_field" THEN {c.old} ELSE Range(c.names)

\* Call c names a table the registry of mg does not have.
UnknownTable(mg, c) == ~HasModel(mg.orm, c.tname)

\* Call c names a table the registry has and a field its class does not have.
UnknownField(mg, c) ==
    /\ HasModel(mg.orm, c.tname)
    /\ \E n \in NamesGiven(c) : ~HasField(GetModel(mg.orm, c.tname), n)

\* The last call raised and the Migrator is as it was before the call.
RaisedAndUntouched == ~auto.last.ok /\ auto.mg = auto.last.mg

\* C35 -- a Migrator method called with an unknown table name or an unknown
\* field name raises at that call and leaves the registry and the queue as
\* they were before the call (the registry is never partly updated); for
\* remove_fields, rename_field, add_index, drop_index, add_not_null,
\* drop_not_null and add_default, calls that name several fields of which
\* only a later one is unknown included.
C35_UnknownNameRaises ==
    (/\ auto.last.c.m \in {"remove_fields", "rename_field", "add_index", "drop_index",
                           "add_not_null", "drop_not_null", "add_default"}
     /\ UnknownTable(auto.last.mg, auto.last.c) \/ UnknownField(auto.last.mg, auto.last.c))
        => RaisedAndUntouched

\* The part of C35 that holds: an unknown table in every one of these
\* methods, and an unknown field in rename_field and add_default.
C35_UnknownTableRaises ==
    (/\ auto.last.c.m \in {"remove_fields", "rename_field", "add_index", "drop_index",
                           "add_not_null", "drop_not_null", "add_default"}
     /\ \/ UnknownTable(auto.last.mg, auto.last.c)
        \/ /\ auto.last.c.m \in {"rename_field", "add_default"}
           /\ UnknownField(auto.last.mg, auto.last.c))
        => RaisedAndUntouched

\* remove_fields naming a field the class does not have returned.
C35_RemoveFieldsReturned ==
    /\ auto.last.c.m = "remove_fields" /\ UnknownField(auto.last.mg, auto.last.c)
    /\ auto.last.ok

\* drop_index naming a field the class does not have returned.
C35_DropIndexReturned ==
    /\ auto.last.c.m = "drop_index" /\ UnknownField(auto.last.mg, auto.last.c)
    /\ auto.last.ok

\* add_index naming a field the class does not have raised after it changed
\* the registry.
C35_AddIndexPartly ==
    /\ auto.last.c.m = "add_index" /\ UnknownField(auto.last.mg, auto.last.c)
    /\ ~auto.last.ok /\ auto.mg # auto.last.mg

\* add_not_null naming a field the class does not have behind one it has
\* raised after it changed the registry and the queue.
C35_NotNullPartly ==
    /\ auto.last.c.m = "add_not_null" /\ UnknownField(auto.last.mg, auto.last.c)
    /\ ~auto.last.ok /\ auto.mg # auto.last.mg

\* Router 1 is about to execute a migration for real: run_one was called with
\* fake=False on the migrator of the router.
AboutToExecute == pc[1] = "run_one" /\ ~Emulate(cur[1])

\* The registry that replaying the migrations of the history table, each once
\* and in order, on a new Migrator gives.
HistoryRegistry == Replay(files, NewMigrator, Done(db)).mg.orm

\* C36 -- registry and history agree on one Router: after any sequence of
\* create (with a target schema), run, rollback and failed runs, whenever a
\* migration is about to be executed for real, the registry of the Migrator
\* is the registry obtained by replaying the migrations that are in the
\* history table, each once and in order: no pending and no failed migration
\* has left its changes in it.
C36_RegistryFollowsHistory ==
    AboutToExecute => migrator[1].orm = HistoryRegistry

\* The part of C36 that holds: the first migration executed by the call that
\* built the Migrator of the router.
C36_FreshRegistryFollowsHistory ==
    (AboutToExecute /\ ~g[1].pre.cached /\ g[1].ran = <<>>) =>
        migrator[1].orm = HistoryRegistry

\* --------------------------------------------------- the registry under calls
\* The number of create_model, remove_model and rename_table calls made on one
\* Migrator.
MaxRegistryCalls == 3

\* The calls on the registry: create_model of the classes A (table a), B
\* (table b), a second class named A (table c) and a class C on table a;
\* remove_model and rename_table by model name or table name.
RegistryOffered ==
    {[m |-> "create_model", tname |-> cl[2],
      model |-> SchemaModel(cl[1], cl[2], <<>>, <<>>)] :
        cl \in {<<"A", "a">>, <<"B", "b">>, <<"A", "c">>, <<"C", "a">>}}
    \cup {[m |-> "remove_model", tname |-> t] : t \in {"A", "B", "a", "b", "c"}}
    \cup {Rename("rename_table", t, "", new) :
             t \in {"A", "B", "a", "b", "c"}, new \in {"a", "b", "c"}}

\* A new Migrator: the registry is empty and nothing was called.
InitRegistry ==
    /\ RouterInit
    /\ auto = [mg |-> NewMigrator, n |-> 0, prev |-> NoMutation, last |-> NoMutation]

\* The migration function calls create_model, remove_model or rename_table.
RegistryCalled ==
    /\ auto.n < MaxRegistryCalls
    /\ \E c \in RegistryOffered :
          \E r \in {MutatorExec(auto.mg, c, None)} :
              auto' = [mg |-> r.mg, n |-> auto.n + 1, prev |-> auto.last,
                       last |-> Mutation(c, r.ok, auto.mg)]
    /\ UNCHANGED <<files, db, lock, pc, call, cur, loc, migrator, cached, snap,
                   out, g, calls>>

NextRegistry == RegistryCalled

SpecRegistry == InitRegistry /\ [][NextRegistry]_vars

\* Every key of the by-table-name map is the table name of the class it
\* holds.
TableKeysCurrent(orm) == \A k \in DOMAIN orm.tables : orm.tables[k].tname = k

\* C37 -- the registry maps: after any sequence of create_model, remove_model
\* and rename_table calls (two classes of one model name created, a table
\* renamed to a name another table holds), the by-model-name map and the
\* by-table-name map hold exactly the same classes, and every key of the
\* by-table-name map is the current table name of the class it maps to.
C37_RegistryMapsAgree ==
    /\ Models(auto.mg.orm) = {auto.mg.orm.tables[k] : k \in DOMAIN auto.mg.orm.tables}
    /\ TableKeysCurrent(auto.mg.orm)

\* The part of C37 that holds: the keys of the by-table-name map.
C37_TableKeysCurrent == TableKeysCurrent(auto.mg.orm)

\* In a piece of generated code every call that adds or changes a foreign key
\* whose target table is created by the same code stands behind the
\* create_model call of that table.
FKAfterCreate(code) ==
    \A i \in 1..Len(code) :
        code[i].m \in {"add_fields", "change_fields"} =>
            \A k \in 1..Len(code[i].fields) :
                IsFK(code[i].fields[k]) =>
                    \A j \in 1..Len(code) :
                        (code[j].m = "create_model"
                            /\ code[j].tname = code[i].fields[k].rel) => j < i

\* C38 -- in a multi-table diff an operation that adds or changes a foreign
\* key field on an existing table whose target table is created by the same
\* diff is emitted after the create operation of the target table, so that
\* every registry lookup of a table in the generated migration happens after
\* the table was created.
C38_ForeignKeyAfterTargetCreate ==
    auto.at # "A" => FKAfterCreate(auto.migrate) /\ FKAfterCreate(auto.rollback)

\* The generated migrate adds a foreign key before it creates the target
\* table, and applying it raised.
C38_ApplyRaised ==
    /\ auto.at = "B" /\ ~auto.ok
    /\ ~FKAfterCreate(auto.migrate)
    /\ auto.mg.ops = <<>>

\* The number of operations of one kind the Migrator has queued on table a.
QueuedOn(kind) ==
    Cardinality({i \in 1..Len(auto.mg.ops) :
                    auto.mg.ops[i].kind = kind /\ auto.mg.ops[i].table = "a"})

\* C39 -- when the generated diff of a single-column uniqueness change is
\* applied through the Migrator, each index is created or dropped exactly
\* once: for a field that goes from non-unique to unique the change_fields and
\* add_index steps of the diff queue exactly one add-index operation in
\* total, and for the reverse change exactly one drop-index operation.
C39_IndexOnce ==
    (auto.at = "B" /\ auto.ok) =>
        \A m \in Versions(auto.B, "a") : \A s \in Versions(auto.A, "a") :
            \A n \in {"f", "h"} :
                /\ MadeUnique(m, s, n) =>
                      QueuedOn("add_index") = 1 /\ QueuedOn("drop_index") = 0
                /\ MadeUnique(s, m, n) =>
                      QueuedOn("drop_index") = 1 /\ QueuedOn("add_index") = 0

\* The diff that makes field f unique was applied and two add-index
\* operations are queued.
C39_AddedTwice ==
    /\ auto.at = "B" /\ auto.ok
    /\ \E m \in Versions(auto.B, "a") : \E s \in Versions(auto.A, "a") :
          MadeUnique(m, s, "f")
    /\ QueuedOn("add_index") = 2

\* ------------------------------------------------- symmetry of compare_fields
\* The pairs of fields the differ compares: a field of a model of the target
\* snapshot and the field of the same name of the same table in the source
\* snapshot, both of the same field class.
Compared ==
    {<<GetField(m, n), GetField(s, n)>> :
        <<m, s, n>> \in {x \in auto.B \X auto.A \X {"f", "h"} :
                            /\ x[1].tname = x[2].tname
                            /\ x[3] \in FieldNames(x[1]) \cap FieldNames(x[2])
                            /\ GetField(x[1], x[3]).type = GetField(x[2], x[3]).type}}

\* The keywords of the parameters the comparison gives a field.
ParamKeys(f) == {p[1] : p \in get_field_parameters(f, TRUE)}

\* C40 -- the field comparison is symmetric in whether it finds a difference:
\* for any two fields f and g of the same field class compare_fields(f, g) is
\* empty if and only if compare_fields(g, f) is empty, also when one field
\* carries a parameter the other lacks (an explicit column name).
C40_CompareSymmetric ==
    \A p \in Compared :
        (compare_fields(p[1], p[2]) = {}) <=> (compare_fields(p[2], p[1]) = {})

\* The comparison is symmetric for two fields that carry the same parameters
\* (each keyword given for one is given for the other).
C40_CompareSymmetricSameKeys ==
    \A p \in Compared :
        ParamKeys(p[1]) = ParamKeys(p[2]) =>
            ((compare_fields(p[1], p[2]) = {}) <=> (compare_fields(p[2], p[1]) = {}))

\* Two compared fields differ in a flag and carry the same parameters.
C40_SameKeysDiffer ==
    \E p \in Compared :
        /\ ParamKeys(p[1]) = ParamKeys(p[2])
        /\ compare_fields(p[1], p[2]) # {}
        /\ compare_fields(p[2], p[1]) # {}

=============================================================================
